---- MODULE Spec2Model ----
(***************************************************************************)
(* Incremental remote collection of nf-core/stats:                         *)
(*   - the retrying HTTP client and github_request      (_github.py)       *)
(*   - get_paginated_data                               (_github.py)       *)
(*   - the per-repository collectors and issue_stats    (github_pipeline)  *)
(*   - main and the resources it runs                   (github_pipeline)  *)
(*   - strict_syntax_source and strict_syntax_history   (strict_syntax)    *)
(*   - the legacy GraphQL resource `repositories`       (pipeline/)        *)
(*   - paginate_slack_api and slack_stats_resource      (slack_pipeline)   *)
(* Optional values are sequences of length <= 1: None is <<>>, a value x   *)
(* is <<x>>.  Header values are strings, modelled as sequences of          *)
(* one-character strings, so that int() and str.isdigit() do real work.    *)
(***************************************************************************)
EXTENDS Integers, Sequences, FiniteSets, TLC

VARIABLES
    \* ---- one call of github_request (http_client.get and its retries)
    rpc,          \* "attempt" | "sleep" | "classify" | "done" | "off"
    hist,         \* what each attempt of the request got, in order
    sleeps,       \* the delays slept between the attempts, in order
    outcome,      \* what github_request did: a return or a raise
    \* ---- one call of get_paginated_data
    ppc,          \* "call" | "done" | "off"
    items,        \* the logical result set held by the server
    chain,        \* the pages the server answers with, linked by 'next'
    presult,      \* what get_paginated_data did: a return or a raise
    \* ---- one run of a collector
    cpc,          \* "start" | "loop" | "issues" | "done" | "raised" | "off"
    collector,    \* which collector runs
    params,       \* traffic_stats: only_active_repos, max_repos
    repos,        \* the repositories handed to the collector
    filtered_repos,   \* the repositories it iterates, in order
    pos,          \* index in filtered_repos of the next repository
    issues,       \* issue_stats: the issues of the repository at hand
    ipos,         \* issue_stats: index in issues of the next issue
    requested,    \* the request log, in request order
    log,          \* per repository handled: what its fetch did and served
    ilog,         \* issue_stats, per issue handled: what was decided
    emitted,      \* the records yielded so far
    processed_issues, \* dlt source state: repo -> issue_key -> entry
    checkpoint0,  \* processed_issues as it was before the run
    remaining,    \* issue_stats: what its rate-limit check reported
    fetch_comments,   \* issue_stats: remaining > 500
    warnings,     \* the logger.warning lines of the rate-limit checks
    cerror,       \* the error that left the collector, if one did
    \* ---- successive runs of issue_stats over one dlt source state
    run,          \* the number of the run at hand
    history,      \* what each earlier run saw and did, in order
    \* ---- main
    mpc,          \* "start" | "check" | "repos" | "loop" | "resource" | "done" | "failed" | "off"
    api_token,    \* the configured secret: None when missing, else its text
    resources_to_run, \* the names of the resources selected, in order
    ridx,         \* index in resources_to_run of the resource at hand
    mlog,         \* what main did, in order
    \* ---- the runs of strict_syntax_source over one dlt source state
    spc,          \* "start" | "loop" | "done" | "raised" | "off"
    nf_sha,       \* the Nextflow HEAD commit of the run
    pipelines,    \* the names of the pipelines the run goes through
    sidx,         \* index in pipelines of the next pipeline
    results,      \* the lint results collected so far
    slog,         \* per pipeline handled: what was known and what was done
    last_analyzed,    \* dlt source state: name -> the SHAs last linted
    last_analyzed0,   \* last_analyzed as it was before the run
    history_out,  \* the record of strict_syntax_history, once yielded
    srun,         \* the number of the run at hand
    \* ---- one run of the legacy GraphQL resource `repositories`
    gpc,          \* "call" | "done" | "off"
    gql_pages,    \* the pages the server answers with, in cursor order
    last_value,   \* updated_at.last_value at the start of the run
    gql_out,      \* what the generator did: yielded, requested, how it ended
    \* ---- one run of slack_stats_resource
    slpc,         \* "call" | "done" | "off"
    users_pages,  \* the pages users.list answers with, in cursor order
    billing_pages,    \* the pages team.billableInfo answers with
    slack_out     \* what the resource did, and what its paginations returned

reqVars == <<rpc, hist, sleeps, outcome>>
pagVars == <<ppc, items, chain, presult>>
colVars == <<cpc, collector, params, repos, filtered_repos, pos, issues, ipos,
             requested, log, ilog, emitted, processed_issues, checkpoint0,
             remaining, fetch_comments, warnings, cerror>>
runVars == <<run, history>>
mainVars == <<mpc, api_token, resources_to_run, ridx, mlog>>
synVars == <<spc, nf_sha, pipelines, sidx, results, slog, last_analyzed,
             last_analyzed0, history_out, srun>>
gqlVars == <<gpc, gql_pages, last_value, gql_out>>
slackVars == <<slpc, users_pages, billing_pages, slack_out>>
extVars == <<synVars, gqlVars, slackVars>>
vars == <<reqVars, pagVars, colVars, runVars, mainVars, extVars>>

----------------------------------------------------------------------------
(* Helpers *)

None == <<>>
Some(x) == <<x>>
IsNone(o) == o = <<>>
Last(s) == s[Len(s)]
Min(a, b) == IF a < b THEN a ELSE b
Range(q) == {q[i] : i \in 1..Len(q)}

RECURSIVE Pow2(_)
Pow2(n) == IF n <= 0 THEN 1 ELSE 2 * Pow2(n - 1)

Digits == {"0", "1", "2", "3", "4", "5", "6", "7", "8", "9"}
DigitVal(c) == CASE c = "0" -> 0 [] c = "1" -> 1 [] c = "2" -> 2 [] c = "3" -> 3
                 [] c = "4" -> 4 [] c = "5" -> 5 [] c = "6" -> 6 [] c = "7" -> 7
                 [] c = "8" -> 8 [] c = "9" -> 9

\* str.isdigit(): non-empty and every character a digit
isdigit(s) == Len(s) > 0 /\ \A i \in 1..Len(s) : s[i] \in Digits

\* int(s) for a string of digits
RECURSIVE int(_)
int(s) == IF Len(s) = 0 THEN 0
          ELSE 10 * int(SubSeq(s, 1, Len(s) - 1)) + DigitVal(s[Len(s)])

----------------------------------------------------------------------------
(* The HTTP client: dlt's Client as configured in _github.py *)

request_max_attempts == 5
request_backoff_factor == 1
request_max_retry_delay == 300

\* Header values GitHub sends: decimal strings
H0 == <<"0">>
H3 == <<"3">>
H17 == <<"1", "7">>
H42 == <<"4", "2">>

Resp(st, rem, rst, ra) ==
    [exc |-> FALSE, status |-> st, remaining |-> rem, reset |-> rst, retry_after |-> ra]

\* requests.ConnectionError / Timeout raised by the transport
NetworkFailure ==
    [exc |-> TRUE, status |-> 0, remaining |-> None, reset |-> None, retry_after |-> None]

\* What one attempt of a request can get from api.github.com
Responses ==
    {Resp(200, Some(H42), Some(H17), None),
     Resp(202, Some(H42), Some(H17), None),
     Resp(403, Some(H0), Some(H17), None),       \* quota exhausted
     Resp(403, Some(H0), None, None),            \* quota exhausted, no reset header
     Resp(403, Some(H42), Some(H17), None),      \* permission
     Resp(403, None, None, None),                \* permission, no rate headers
     Resp(404, Some(H42), Some(H17), None),
     Resp(429, Some(H0), Some(H17), None),
     Resp(429, None, None, Some(H3)),
     Resp(429, None, None, None),
     Resp(503, None, None, None),
     NetworkFailure}

\* (faulty variants of the retry condition: one that also retries 403, one
\* that leaves 429 to the caller)
ShouldRetryAlso403(r) == r.exc \/ r.status \in {403, 429} \/ r.status \in 500..599
ShouldRetryNot429(r) == r.exc \/ r.status \in 500..599

\* The client's retry condition: 429, 5xx and transport errors
ShouldRetry(r) == r.exc \/ r.status = 429 \/ r.status \in 500..599

\* (faulty variant of the wait: linear instead of exponential)
RetryDelayLinear(n, r) == Min(request_backoff_factor * n, request_max_retry_delay)

\* The wait after attempt number n, which got r: Retry-After when the
\* response carries it, else factor * 2^(n-1); never above the max delay
RetryDelay(n, r) ==
    IF ~r.exc /\ ~IsNone(r.retry_after) /\ isdigit(r.retry_after[1])
    THEN Min(int(r.retry_after[1]), request_max_retry_delay)
    ELSE Min(request_backoff_factor * Pow2(n - 1), request_max_retry_delay)

----------------------------------------------------------------------------
(* github_request: what it does with the client's final answer *)

Unknown == <<"u", "n", "k", "n", "o", "w", "n">>
fromtimestamp(n) == [kind |-> "datetime", epoch |-> n, text |-> <<>>]
Text(s) == [kind |-> "text", epoch |-> 0, text |-> s]

Return(r) ==
    [kind |-> "return", exc_type |-> "", message |-> "", reset_datetime |-> None,
     status |-> r.status]
Raise(t, m, d, r) ==
    [kind |-> "raise", exc_type |-> t, message |-> m, reset_datetime |-> d,
     status |-> r.status]

\* dict.get("X-RateLimit-Reset", dict.get("Retry-After", "0"))
ResetOf429(r) ==
    IF ~IsNone(r.reset) THEN r.reset[1]
    ELSE IF ~IsNone(r.retry_after) THEN r.retry_after[1]
    ELSE H0

\* (faulty variant: the final raise_for_status is missing)
github_request_no_raise_for_status(r) ==
    IF r.exc
    THEN Raise("ConnectionError", "connection", None, r)
    ELSE IF r.status = 403 /\ ~IsNone(r.remaining) /\ int(r.remaining[1]) = 0
    THEN Raise("HTTPError", "rate limit exhausted", Some(Text(Unknown)), r)
    ELSE IF r.status = 429
    THEN Raise("HTTPError", "rate limit hit after retries", Some(Text(Unknown)), r)
    ELSE Return(r)

\* (faulty variant: every status but 200 is raised)
github_request_raise_unless_200(r) ==
    IF r.exc
    THEN Raise("ConnectionError", "connection", None, r)
    ELSE IF r.status # 200
    THEN Raise("HTTPError", "status", None, r)
    ELSE Return(r)

github_request(r) ==
    IF r.exc
    THEN Raise("ConnectionError", "connection", None, r)
    ELSE IF r.status = 403 /\ ~IsNone(r.remaining) /\ int(r.remaining[1]) = 0
    THEN Raise("HTTPError", "rate limit exhausted",
               Some(IF ~IsNone(r.reset) /\ Len(r.reset[1]) > 0
                    THEN fromtimestamp(int(r.reset[1]))
                    ELSE Text(Unknown)), r)
    ELSE IF r.status = 429
    THEN Raise("HTTPError", "rate limit hit after retries",
               Some(IF isdigit(ResetOf429(r))
                    THEN fromtimestamp(int(ResetOf429(r)))
                    ELSE Text(ResetOf429(r))), r)
    ELSE IF r.status >= 400
    THEN Raise("HTTPError", "status", None, r)       \* raise_for_status
    ELSE Return(r)

\* requests.HTTPError and requests.ConnectionError are RequestExceptions
IsRequestException(o) == o.kind = "raise" /\ o.exc_type \in {"HTTPError", "ConnectionError"}
\* the two errors github_request raises for rate limiting
IsRateLimitError(o) ==
    o.kind = "raise" /\ o.message \in {"rate limit exhausted", "rate limit hit after retries"}

NoOutcome ==
    [kind |-> "none", exc_type |-> "", message |-> "", reset_datetime |-> None, status |-> 0]

----------------------------------------------------------------------------
(* One call of github_request, attempt by attempt *)

HttpAttempt ==
    /\ rpc = "attempt"
    /\ \E r \in Responses :
        /\ hist' = Append(hist, r)
        /\ rpc' = IF ShouldRetry(r) /\ Len(hist) + 1 < request_max_attempts
                  THEN "sleep" ELSE "classify"
    /\ UNCHANGED <<sleeps, outcome, pagVars, extVars, colVars, runVars, mainVars>>

HttpSleep ==
    /\ rpc = "sleep"
    /\ sleeps' = Append(sleeps, RetryDelay(Len(hist), Last(hist)))
    /\ rpc' = "attempt"
    /\ UNCHANGED <<hist, outcome, pagVars, extVars, colVars, runVars, mainVars>>

GithubRequestEnd ==
    /\ rpc = "classify"
    /\ outcome' = github_request(Last(hist))
    /\ rpc' = "done"
    /\ UNCHANGED <<hist, sleeps, pagVars, extVars, colVars, runVars, mainVars>>


----------------------------------------------------------------------------
(* get_paginated_data *)

MaxItems == 3
MaxPages == 3

\* A page of the chain: the client's final answer for its URL, the shape of
\* the JSON body ("list", "items" for an object with 'items', "other") and
\* the items the body holds.  Page i carries a 'next' link to page i+1.
Page(h, sh, its) == [http |-> h, shape |-> sh, items |-> its]

PagReturn(sh, v, reqs) ==
    [kind |-> "return", shape |-> sh, value |-> v, error |-> NoOutcome,
     requested |-> reqs]
PagRaise(e, reqs) ==
    [kind |-> "raise", shape |-> "", value |-> <<>>, error |-> e, requested |-> reqs]
NoResult ==
    [kind |-> "none", shape |-> "", value |-> <<>>, error |-> NoOutcome,
     requested |-> <<>>]

\* (faulty variant of the link following: jumps over a page)
NextUrlSkip(ch, url) == IF url + 1 < Len(ch) THEN url + 2 ELSE 0

\* response.links.get("next", {}).get("url"): 0 stands for None
NextUrl(ch, url) == IF url < Len(ch) THEN url + 1 ELSE 0

\* (faulty variant: a body of another shape does not end the loop)
RECURSIVE PaginateLoopPastOther(_, _, _, _)
PaginateLoopPastOther(ch, url, all_results, reqs) ==
    IF url = 0
    THEN PagReturn("list", all_results, reqs)
    ELSE LET response == github_request(ch[url].http)
         IN  IF response.kind = "raise"
             THEN PagRaise(response, Append(reqs, url))
             ELSE PaginateLoopPastOther(ch, NextUrl(ch, url),
                                        all_results \o ch[url].items, Append(reqs, url))

\* the while loop, from the state (url, all_results); reqs logs the URLs asked
RECURSIVE PaginateLoop(_, _, _, _)
PaginateLoop(ch, url, all_results, reqs) ==
    IF url = 0
    THEN PagReturn("list", all_results, reqs)
    ELSE LET response == github_request(ch[url].http)
             data == ch[url]
         IN  IF response.kind = "raise"
             THEN PagRaise(response, Append(reqs, url))
             ELSE IF data.shape = "items"
             THEN PaginateLoop(ch, NextUrl(ch, url), all_results \o data.items,
                               Append(reqs, url))
             ELSE IF data.shape = "list"
             THEN PaginateLoop(ch, NextUrl(ch, url), all_results \o data.items,
                               Append(reqs, url))
             ELSE PagReturn("other", data.items, Append(reqs, url))

get_paginated_data(ch) == PaginateLoop(ch, IF Len(ch) > 0 THEN 1 ELSE 0, <<>>, <<>>)

\* ---- the inputs: a result set and a way of serving it in pages
Iota(n) == [i \in 1..n |-> i]
ItemLists == {Iota(n) : n \in 0..MaxItems}

\* cut points 0 = c[0] <= c[1] <= ... <= c[k] = n
Cuts(n, k) ==
    {c \in [0..k -> 0..n] :
        /\ c[0] = 0
        /\ c[k] = n
        /\ \A j \in 1..k : c[j - 1] <= c[j]}

Ok200 == Resp(200, Some(H42), Some(H17), None)
Http404 == Resp(404, Some(H42), Some(H17), None)
Http403Perm == Resp(403, Some(H42), Some(H17), None)
Http403Zero == Resp(403, Some(H0), Some(H17), None)
Http429 == Resp(429, Some(H0), Some(H17), None)
Http503 == Resp(503, None, None, None)
Http202 == Resp(202, Some(H42), Some(H17), None)

\* what the client can end a page request with
PageHttp == {Ok200, Http404, NetworkFailure}
PageShapes == {"list", "items", "other"}

\* the chain that serves its in k pages cut at c, page j answered with h[j]
\* and shaped sh[j]
ChainOf(its, k, c, h, sh) ==
    [j \in 1..k |-> Page(h[j], sh[j], SubSeq(its, c[j - 1] + 1, c[j]))]

GetPaginatedData ==
    /\ ppc = "call"
    /\ presult' = get_paginated_data(chain)
    /\ ppc' = "done"
    /\ UNCHANGED <<items, chain, reqVars, colVars, runVars, mainVars, extVars>>

----------------------------------------------------------------------------
(* The collectors of github_pipeline.py: what they are given *)

\* a repository as listed by /orgs/{org}/repos; updated_at in days
Repo(n, arch, upd, stars) ==
    [name |-> n, archived |-> arch, updated_at |-> upd, stargazers_count |-> stars]

RepoA == Repo("a", FALSE, 990, 5)     \* updated 10 days before Today
RepoB == Repo("b", FALSE, 995, 9)
RepoC == Repo("c", TRUE, 990, 7)      \* archived
RepoD == Repo("d", FALSE, 800, 8)     \* updated 200 days before Today
Today == 1000

MaxRepos == 2

\* lists of distinct repositories, at most MaxRepos long
RepoListsOver(universe) ==
    UNION {{r \in [1..k -> universe] : \A i, j \in 1..k : i # j => r[i] # r[j]} :
           k \in 0..MaxRepos}

\* what the client can end a collector's request with, when it fails
CollFail == {Http404, Http403Perm, Http403Zero, NetworkFailure}

\* the entries of the request log
Req(name, what, number) == <<name, what, number>>

\* the entries of log
LogEntry(name, ev, err, d) == [repo |-> name, event |-> ev, error |-> err, data |-> d]

\* (faulty variant: the handler catches transport errors only)
except_ConnectionError(o) == o.kind = "raise" /\ o.exc_type = "ConnectionError"

\* `except requests.RequestException`: does the handler catch o
except_RequestException(o) == IsRequestException(o)

\* the repository's fetch raised o after the requests reqs: the handler
\* logs and continues with the next repository, or o leaves the collector
FetchRaised(name, o, reqs) ==
    /\ requested' = requested \o reqs
    /\ log' = Append(log, LogEntry(name, "failed", o, <<>>))
    /\ IF except_RequestException(o)
       THEN pos' = pos + 1 /\ UNCHANGED <<cpc, cerror>>
       ELSE cpc' = "raised" /\ cerror' = o /\ UNCHANGED pos
    /\ UNCHANGED <<emitted, processed_issues, issues, ipos>>

\* ---- chains a paginated sub-resource can be served as
OkChains(L) ==
    UNION {{ChainOf(L, k, c, [j \in 1..k |-> Ok200], [j \in 1..k |-> "list"]) :
                c \in Cuts(Len(L), k)} : k \in 1..2}
FailChains(L) ==
    {<<Page(f, "other", <<>>)>> : f \in CollFail}
    \cup {<<Page(Ok200, "list", L), Page(f, "other", <<>>)>> : f \in CollFail}
\* 202 Accepted with an empty JSON object: still computing
NotReadyChain == <<Page(Http202, "other", <<>>)>>

----------------------------------------------------------------------------
(* traffic_stats *)

ActiveDays == 180

\* (faulty variant: archived repositories pass the filter)
IsActiveIgnoringArchived(repo, now) == repo.updated_at > now - ActiveDays

IsActive(repo, now) == repo.updated_at > now - ActiveDays /\ ~repo.archived

\* sorted(key=stargazers_count, reverse=True): stable, descending
RECURSIVE InsertByStars(_, _)
InsertByStars(sorted, r) ==
    IF sorted = <<>> THEN <<r>>
    ELSE IF Head(sorted).stargazers_count >= r.stargazers_count
         THEN <<Head(sorted)>> \o InsertByStars(Tail(sorted), r)
         ELSE <<r>> \o sorted
RECURSIVE SortByStars(_)
SortByStars(rs) ==
    IF rs = <<>> THEN <<>>
    ELSE InsertByStars(SortByStars(SubSeq(rs, 1, Len(rs) - 1)), rs[Len(rs)])

\* lines 66-87: the repositories traffic_stats will request
FilterRepos(rs, p) ==
    LET active == IF p.only_active_repos
                  THEN SelectSeq(rs, LAMBDA r : IsActive(r, p.now))
                  ELSE rs
        sorted == SortByStars(active)
    IN  IF ~IsNone(p.max_repos) /\ p.max_repos[1] # 0
        THEN SubSeq(sorted, 1, Min(p.max_repos[1], Len(sorted)))
        ELSE sorted

TrafficParams ==
    [only_active_repos : BOOLEAN, max_repos : {None, Some(1), Some(2)}, now : {Today}]
NoParams == [only_active_repos |-> FALSE, max_repos |-> None, now |-> Today]

Point(ts, c, u) == [timestamp |-> ts, count |-> c, uniques |-> u]
ViewLists == {<<>>, <<Point(1, 11, 1), Point(2, 12, 2)>>}
CloneLists == {<<>>, <<Point(2, 22, 1), Point(3, 23, 2)>>}

\* (faulty variant: the clones of a viewed timestamp are not looked up)
CloneAtZero(clones, ts) == Point(ts, 0, 0)

\* clones_by_timestamp.get(timestamp, {"count": 0, "uniques": 0}); of two
\* clones with one timestamp the dict keeps the later
CloneAt(clones, ts) ==
    LET hits == {i \in 1..Len(clones) : clones[i].timestamp = ts}
    IN  IF hits = {} THEN Point(ts, 0, 0)
        ELSE clones[CHOOSE i \in hits : \A j \in hits : j <= i]

TrafficRecord(name, ts, v, vu, c, cu) ==
    [pipeline_name |-> name, timestamp |-> ts, views |-> v, views_uniques |-> vu,
     clones |-> c, clones_uniques |-> cu]

\* lines 114-151: the records of one repository
TrafficRecords(name, views, clones) ==
    LET fromViews ==
            [i \in 1..Len(views) |->
                TrafficRecord(name, views[i].timestamp, views[i].count, views[i].uniques,
                              CloneAt(clones, views[i].timestamp).count,
                              CloneAt(clones, views[i].timestamp).uniques)]
        onlyClones ==
            SelectSeq(clones, LAMBDA c :
                ~\E i \in 1..Len(views) : views[i].timestamp = c.timestamp)
        fromClones ==
            [i \in 1..Len(onlyClones) |->
                TrafficRecord(name, onlyClones[i].timestamp, 0, 0,
                              onlyClones[i].count, onlyClones[i].uniques)]
    IN  fromViews \o fromClones

TrafficStart ==
    /\ cpc = "start" /\ collector = "traffic_stats"
    /\ filtered_repos' = FilterRepos(repos, params)
    /\ pos' = 1
    /\ cpc' = "loop"
    /\ UNCHANGED <<collector, params, repos, issues, ipos, requested, log, ilog,
                   emitted, processed_issues, checkpoint0, remaining,
                   fetch_comments, warnings, cerror, reqVars, pagVars, extVars, runVars, mainVars>>

\* one iteration of the loop of lines 92-151
TrafficRepo ==
    /\ cpc = "loop" /\ collector = "traffic_stats" /\ pos <= Len(filtered_repos)
    /\ LET name == filtered_repos[pos].name
           rv == Req(name, "views", 0)
           rc == Req(name, "clones", 0)
       IN  \E hv \in {Ok200} \cup CollFail :
             IF github_request(hv).kind = "raise"
             THEN FetchRaised(name, github_request(hv), <<rv>>)
             ELSE \E hc \in {Ok200} \cup CollFail :
                    IF github_request(hc).kind = "raise"
                    THEN FetchRaised(name, github_request(hc), <<rv, rc>>)
                    ELSE \E views \in ViewLists, clones \in CloneLists :
                           /\ requested' = requested \o <<rv, rc>>
                           /\ log' = Append(log, LogEntry(name, "ok", NoOutcome,
                                        [views |-> views, clones |-> clones]))
                           /\ emitted' = emitted \o TrafficRecords(name, views, clones)
                           /\ pos' = pos + 1
                           /\ UNCHANGED <<cpc, cerror, processed_issues, issues, ipos>>
    /\ UNCHANGED <<collector, params, repos, filtered_repos, ilog, checkpoint0,
                   remaining, fetch_comments, warnings, reqVars, pagVars, extVars, runVars, mainVars>>

----------------------------------------------------------------------------
(* contributor_stats and commit_stats *)

SecondsPerDay == 86400

\* the first lines of a collector that only logs before its loop
PlainStart(c) ==
    /\ cpc = "start" /\ collector = c
    /\ filtered_repos' = repos
    /\ pos' = 1
    /\ cpc' = "loop"
    /\ UNCHANGED <<collector, params, repos, issues, ipos, requested, log, ilog,
                   emitted, processed_issues, checkpoint0, remaining,
                   fetch_comments, warnings, cerror, reqVars, pagVars, extVars, runVars, mainVars>>

\* one iteration of a loop of the shape
\*   try: x = get_paginated_data(url); if not isinstance(x, list): continue
\*   except requests.RequestException: continue
\*   ... yield the records of x
PagedRepo(c, what, chains, Records(_, _)) ==
    /\ cpc = "loop" /\ collector = c /\ pos <= Len(filtered_repos)
    /\ LET name == filtered_repos[pos].name
           rq == Req(name, what, 0)
       IN  \E ch \in chains :
             LET got == get_paginated_data(ch)
             IN  IF got.kind = "raise"
                 THEN FetchRaised(name, got.error, <<rq>>)
                 ELSE /\ requested' = Append(requested, rq)
                      /\ pos' = pos + 1
                      /\ IF got.shape # "list"
                         THEN /\ log' = Append(log, LogEntry(name, "not_list", NoOutcome,
                                                          Last(ch)))
                              /\ UNCHANGED emitted
                         ELSE /\ log' = Append(log, LogEntry(name, "ok", NoOutcome, got.value))
                              /\ emitted' = emitted \o Records(name, got.value)
                      /\ UNCHANGED <<cpc, cerror, processed_issues, issues, ipos>>
    /\ UNCHANGED <<collector, params, repos, filtered_repos, ilog, checkpoint0,
                   remaining, fetch_comments, warnings, reqVars, pagVars, extVars, runVars, mainVars>>

\* ---- contributor_stats
Week(w, a, d, c) == [w |-> w, a |-> a, d |-> d, c |-> c]
Contributor(login, weeks) == [author |-> login, weeks |-> weeks]

\* datetime.fromtimestamp(w, utc).strftime("%Y-%m-%d"): the day of w
week_date(w) == w \div SecondsPerDay

\* (contributor, week) pairs of the stats, in iteration order
RECURSIVE ContributorWeeks(_)
ContributorWeeks(stats) ==
    IF stats = <<>> THEN <<>>
    ELSE [i \in 1..Len(Head(stats).weeks) |->
            [author |-> Head(stats).author, week |-> Head(stats).weeks[i]]]
         \o ContributorWeeks(Tail(stats))

\* lines 174-195: contributor_data keeps the first entry of each key
ContributorRecords(name, stats) ==
    LET cw == ContributorWeeks(stats)
        first == {i \in 1..Len(cw) :
                    ~\E j \in 1..(i - 1) :
                        /\ cw[j].author = cw[i].author
                        /\ week_date(cw[j].week.w) = week_date(cw[i].week.w)}
        F[i \in 0..Len(cw)] ==
            IF i = 0 THEN <<>>
            ELSE IF i \in first
                 THEN Append(F[i - 1],
                        [pipeline_name |-> name, author |-> cw[i].author,
                         week_date |-> week_date(cw[i].week.w),
                         week_additions |-> cw[i].week.a,
                         week_deletions |-> cw[i].week.d,
                         week_commits |-> cw[i].week.c, week_approvals |-> 0])
                 ELSE F[i - 1]
    IN  F[Len(cw)]

ContributorLists ==
    {<<>>,
     <<Contributor("alice", <<Week(604800, 5, 1, 2), Week(1209600, 0, 0, 0)>>),
       Contributor("bob", <<Week(604800, 3, 3, 1)>>)>>}
StatsChains ==
    {NotReadyChain} \cup UNION {OkChains(L) \cup FailChains(L) : L \in ContributorLists}

ContributorStart == PlainStart("contributor_stats")
ContributorRepo ==
    PagedRepo("contributor_stats", "stats/contributors", StatsChains, ContributorRecords)

\* ---- commit_stats
Commit(d) == [date |-> d]

\* datetime.weekday(): Monday is 0; 1970-01-01 was a Thursday
weekday(t) == ((t \div SecondsPerDay) + 3) % 7
\* int((commit_time - timedelta(days=commit_time.weekday())).timestamp())
week_timestamp(t) == t - weekday(t) * SecondsPerDay

\* lines 403-421: one record per key of commit_counts, in insertion order
CommitRecords(name, commits) ==
    LET dated == SelectSeq(commits, LAMBDA c : ~IsNone(c.date))
        wk(i) == week_timestamp(dated[i].date[1])
        first == {i \in 1..Len(dated) : ~\E j \in 1..(i - 1) : wk(j) = wk(i)}
        F[i \in 0..Len(dated)] ==
            IF i = 0 THEN <<>>
            ELSE IF i \in first
                 THEN Append(F[i - 1],
                        [pipeline_name |-> name, timestamp |-> wk(i),
                         number_of_commits |->
                            Cardinality({j \in 1..Len(dated) : wk(j) = wk(i)})])
                 ELSE F[i - 1]
    IN  F[Len(dated)]

\* 1704067200 is Monday 2024-01-01 00:00:00 UTC
CommitLists ==
    {<<>>,
     <<Commit(Some(1704067200)), Commit(None), Commit(Some(1704240000)),
       Commit(Some(1704672000))>>,
     \* Monday 2024-01-01 10:00:00 and Wednesday 2024-01-03 11:00:00
     <<Commit(Some(1704103200)), Commit(Some(1704279600))>>}
CommitChains == UNION {OkChains(L) \cup FailChains(L) : L \in CommitLists}

CommitStart == PlainStart("commit_stats")
CommitRepo == PagedRepo("commit_stats", "commits", CommitChains, CommitRecords)

----------------------------------------------------------------------------
(* issue_stats *)

CommentQuotaFloor == 500
MaxComments == 2

Issue(n, c, u, created, closed, pr) ==
    [number |-> n, comments |-> c, user |-> u, created_at |-> created,
     closed_at |-> closed, is_pr |-> pr]
Comment(login, t) == [login |-> login, created_at |-> t]
Entry(n, frs, fr) ==
    [num_comments |-> n, first_response_seconds |-> frs, first_responder |-> fr]

\* str(issue["number"]) for the issue numbers at hand
str(n) == CASE n = 1 -> <<"1">> [] n = 2 -> <<"2">> [] n = 3 -> <<"3">>
            [] OTHER -> <<"9">>

\* (faulty variant: the repository's entries are started afresh)
SetDefaultReset(d, k) == [x \in (DOMAIN d) \cup {k} |-> IF x = k THEN <<>> ELSE d[x]]

\* dict updates
Put(d, k, v) == [x \in (DOMAIN d) \cup {k} |-> IF x = k THEN v ELSE d[x]]
\* d.setdefault(k, {})
SetDefault(d, k) == IF k \in DOMAIN d THEN d ELSE Put(d, k, <<>>)

\* check_rate_limit: the client's final answer h, the core quota rem
check_rate_limit(h, rem) ==
    IF h.exc THEN Raise("ConnectionError", "connection", None, h)
    ELSE IF h.status >= 400 THEN Raise("HTTPError", "status", None, h)
    ELSE [kind |-> "return", exc_type |-> "", message |-> "", reset_datetime |-> None,
          status |-> rem]

RateLevels == {CommentQuotaFloor - 1, CommentQuotaFloor, CommentQuotaFloor + 1}

\* _github.py lines 50-51: the warning check_rate_limit logs
LowRateWarning(rem, min_remaining) ==
    IF rem < min_remaining THEN <<"Low rate limit">> ELSE <<>>
\* lines 211-215: "Skipping comment fetching due to low rate limit ..."
SkippingComments == "Skipping comment fetching"

\* (faulty variant: the gate opens at the floor itself)
FetchGateAtFloor(rem) == rem >= CommentQuotaFloor

\* line 209: fetch_comments = rate_status["remaining"] > 500
FetchGate(rem) == rem > CommentQuotaFloor

\* (faulty variant: the quota gate is not consulted)
should_fetch_ungated(fc, cur, present, prev) == cur > 0 /\ (~present \/ cur # prev)

\* (faulty variant: every issue with comments is fetched again)
should_fetch_always(fc, cur, present, prev) == fc /\ cur > 0

\* lines 249-253
should_fetch_comments(fc, cur, present, prev) ==
    fc /\ cur > 0 /\ (~present \/ cur # prev)

\* (faulty variant: the first comment with a login gives the response)
FirstResponseAnyAuthor(comments, issue, prev) ==
    LET hits == {i \in 1..Len(comments) : ~IsNone(comments[i].login)}
    IN  IF hits = {} THEN prev
        ELSE LET i == CHOOSE i \in hits : \A j \in hits : i <= j
             IN  [first_response_seconds |->
                      Some(comments[i].created_at - issue.created_at),
                  first_responder |-> comments[i].login]

\* lines 263-273: the first comment with a login other than the author's
\* gives the response; without one the previous values stay
FirstResponse(comments, issue, prev) ==
    LET hits == {i \in 1..Len(comments) :
                    /\ ~IsNone(comments[i].login)
                    /\ comments[i].login[1] # issue.user}
    IN  IF hits = {} THEN prev
        ELSE LET i == CHOOSE i \in hits : \A j \in hits : i <= j
             IN  [first_response_seconds |->
                      Some(comments[i].created_at - issue.created_at),
                  first_responder |-> comments[i].login]

\* (faulty variant: the cached response fields are not stored)
NewEntryNoResponse(cur, resp) == Entry(cur, None, None)

\* lines 280-284
NewEntry(cur, resp) == Entry(cur, resp.first_response_seconds, resp.first_responder)

\* lines 286-300
IssueRecord(name, issue, resp) ==
    [pipeline_name |-> name, issue_number |-> issue.number,
     issue_type |-> IF issue.is_pr THEN "pr" ELSE "issue",
     created_by |-> issue.user, created_at |-> issue.created_at,
     closed_at |-> issue.closed_at,
     closed_wait_seconds |->
        IF IsNone(issue.closed_at) THEN None
        ELSE Some(issue.closed_at[1] - issue.created_at),
     first_response_seconds |-> resp.first_response_seconds,
     first_responder |-> resp.first_responder,
     num_comments |-> issue.comments]

\* ---- what the server holds
IssueListsOf(name) ==
    IF name = "a"
    THEN {<<>>}
         \cup {<<Issue(1, c, "alice", 100, None, FALSE)>> : c \in 0..MaxComments}
         \cup {<<Issue(1, c, "alice", 100, None, FALSE),
                 Issue(2, 1, "bob", 200, Some(260), TRUE)>> : c \in 0..MaxComments}
    ELSE {<<>>, <<Issue(1, 1, "bob", 100, None, FALSE)>>}
IssueChains(name) ==
    {NotReadyChain} \cup UNION {OkChains(L) \cup FailChains(L) : L \in IssueListsOf(name)}

CommentLists ==
    {<<Comment(Some("alice"), 210), Comment(Some("bob"), 230)>>,
     <<Comment(None, 205), Comment(Some("carol"), 250)>>,
     <<Comment(Some("alice"), 210)>>}
CommentChains ==
    {NotReadyChain, <<Page(NetworkFailure, "other", <<>>)>>,
     <<Page(Http403Zero, "other", <<>>)>>}
    \cup UNION {OkChains(L) : L \in CommentLists}

\* ---- the checkpoints earlier runs can have left
Dict(pairs) ==
    [k \in {p[1] : p \in {q \in pairs : ~IsNone(q[2])}} |->
        (CHOOSE p \in pairs : p[1] = k /\ ~IsNone(p[2]))[2][1]]
Checkpoints ==
    {LET a == Dict({<<str(1), e1>>, <<str(2), e2>>})
         b == Dict({<<str(1), eb>>})
     IN  Dict({<<"a", IF DOMAIN a = {} THEN None ELSE Some(a)>>,
               <<"b", IF DOMAIN b = {} THEN None ELSE Some(b)>>}) :
        e1 \in {None, Some(Entry(0, None, None)), Some(Entry(1, None, None)),
                Some(Entry(1, Some(130), Some("bob"))),
                Some(Entry(2, Some(130), Some("bob")))},
        e2 \in {None, Some(Entry(1, Some(50), Some("carol")))},
        eb \in {None, Some(Entry(1, Some(130), Some("alice")))}}

\* the entries of ilog
IssueLogEntry(name, issue, att, res, err, served) ==
    [repo |-> name, number |-> issue.number, comments |-> issue.comments,
     attempted |-> att, result |-> res, error |-> err, served |-> served]

\* lines 203-215
IssueStart ==
    /\ cpc = "start" /\ collector = "issue_stats"
    /\ requested' = Append(requested, Req("", "rate_limit", 0))
    /\ \E h \in {Ok200, Http403Perm, NetworkFailure}, rem \in RateLevels :
         LET rate_status == check_rate_limit(h, rem)
         IN  IF rate_status.kind = "raise"
             THEN /\ cpc' = "raised" /\ cerror' = rate_status
                  /\ UNCHANGED <<remaining, fetch_comments, warnings,
                                 filtered_repos, pos>>
             ELSE /\ remaining' = rate_status.status
                  /\ fetch_comments' = FetchGate(rate_status.status)
                  /\ warnings' =
                        warnings
                        \o LowRateWarning(rate_status.status, CommentQuotaFloor)
                        \o (IF FetchGate(rate_status.status) THEN <<>>
                            ELSE <<SkippingComments>>)
                  /\ filtered_repos' = repos
                  /\ pos' = 1
                  /\ cpc' = "loop"
                  /\ UNCHANGED cerror
    /\ UNCHANGED <<collector, params, repos, issues, ipos, log, ilog, emitted,
                   processed_issues, checkpoint0, reqVars, pagVars, extVars, runVars, mainVars>>

\* lines 217-229: the issues of the next repository
IssueRepo ==
    /\ cpc = "loop" /\ collector = "issue_stats" /\ pos <= Len(filtered_repos)
    /\ LET name == filtered_repos[pos].name
           rq == Req(name, "issues", 0)
       IN  \E ch \in IssueChains(name) :
             LET got == get_paginated_data(ch)
             IN  IF got.kind = "raise"
                 THEN FetchRaised(name, got.error, <<rq>>)
                 ELSE /\ requested' = Append(requested, rq)
                      /\ UNCHANGED <<emitted, cerror>>
                      /\ IF got.shape # "list"
                         THEN /\ log' = Append(log, LogEntry(name, "not_list", NoOutcome,
                                                          Last(ch)))
                              /\ pos' = pos + 1
                              /\ UNCHANGED <<cpc, processed_issues, issues, ipos>>
                         ELSE /\ log' = Append(log, LogEntry(name, "ok", NoOutcome, got.value))
                              /\ processed_issues' = SetDefault(processed_issues, name)
                              /\ IF got.value = <<>>
                                 THEN pos' = pos + 1 /\ UNCHANGED <<cpc, issues, ipos>>
                                 ELSE /\ issues' = got.value /\ ipos' = 1
                                      /\ cpc' = "issues" /\ UNCHANGED pos
    /\ UNCHANGED <<collector, params, repos, filtered_repos, ilog, checkpoint0,
                   remaining, fetch_comments, warnings, reqVars, pagVars, extVars, runVars, mainVars>>

\* the issue at hand is handled: store it, yield its record, move on
IssueHandled(name, issue, resp, att, res, err, reqs, served) ==
    /\ requested' = requested \o reqs
    /\ processed_issues' =
          [processed_issues EXCEPT
              ![name] = Put(@, str(issue.number), NewEntry(issue.comments, resp))]
    /\ emitted' = Append(emitted, IssueRecord(name, issue, resp))
    /\ ilog' = Append(ilog, IssueLogEntry(name, issue, att, res, err, served))
    /\ IF ipos < Len(issues)
       THEN ipos' = ipos + 1 /\ UNCHANGED <<cpc, pos, issues>>
       ELSE cpc' = "loop" /\ pos' = pos + 1 /\ issues' = <<>> /\ ipos' = 0
    /\ UNCHANGED cerror

\* lines 231-300: one issue
IssueOne ==
    /\ cpc = "issues" /\ collector = "issue_stats"
    /\ LET name == filtered_repos[pos].name
           issue == issues[ipos]
           issue_key == str(issue.number)
           repo_processed == processed_issues[name]
           present == issue_key \in DOMAIN repo_processed
           previous_comment_count ==
               IF present THEN repo_processed[issue_key].num_comments ELSE 0
           prev == IF present
                   THEN [first_response_seconds |->
                            repo_processed[issue_key].first_response_seconds,
                         first_responder |-> repo_processed[issue_key].first_responder]
                   ELSE [first_response_seconds |-> None, first_responder |-> None]
           rq == Req(name, "comments", issue.number)
       IN  IF should_fetch_comments(fetch_comments, issue.comments, present,
                                    previous_comment_count)
           THEN \E ch \in CommentChains :
                  LET got == get_paginated_data(ch)
                  IN  IF got.kind = "raise"
                      THEN IF except_RequestException(got.error)
                           THEN IssueHandled(name, issue, prev, TRUE, "failed",
                                             got.error, <<rq>>, <<>>)
                           ELSE /\ cpc' = "raised" /\ cerror' = got.error
                                /\ requested' = Append(requested, rq)
                                /\ UNCHANGED <<processed_issues, emitted, ilog, pos,
                                               issues, ipos>>
                      ELSE IF got.shape = "list"
                      THEN IssueHandled(name, issue, FirstResponse(got.value, issue, prev),
                                        TRUE, "fetched", NoOutcome, <<rq>>, got.value)
                      ELSE IssueHandled(name, issue, prev, TRUE, "not_list",
                                        NoOutcome, <<rq>>, <<>>)
           ELSE IssueHandled(name, issue, prev, FALSE, "skipped", NoOutcome, <<>>, <<>>)
    /\ UNCHANGED <<collector, params, repos, filtered_repos, log, checkpoint0,
                   remaining, fetch_comments, warnings, reqVars, pagVars, extVars, runVars, mainVars>>

\* the generator is exhausted
CollectorDone ==
    /\ cpc = "loop" /\ pos > Len(filtered_repos)
    /\ cpc' = "done"
    /\ UNCHANGED <<collector, params, repos, filtered_repos, pos, issues, ipos,
                   requested, log, ilog, emitted, processed_issues, checkpoint0,
                   remaining, fetch_comments, warnings, cerror, reqVars, pagVars, extVars, runVars, mainVars>>

----------------------------------------------------------------------------
(* issue_stats run after run: the source state is what the runs share *)

MaxRuns == 2

\* what a finished run leaves for the properties to look back on
RunSummary ==
    [fetch_comments |-> fetch_comments, checkpoint0 |-> checkpoint0,
     seen |-> [i \in 1..Len(ilog) |->
                 [repo |-> ilog[i].repo, number |-> ilog[i].number,
                  comments |-> ilog[i].comments, attempted |-> ilog[i].attempted]]]

\* the next scheduled run: dlt.current.source_state() hands it the
\* processed_issues the run before left (a run that raised had not written)
NextRun ==
    /\ collector = "issue_stats" /\ cpc \in {"done", "raised"}
    /\ run >= 1 /\ run < MaxRuns
    /\ run' = run + 1
    /\ history' = Append(history, RunSummary)
    /\ checkpoint0' = processed_issues
    /\ cpc' = "start"
    /\ filtered_repos' = <<>> /\ pos' = 0 /\ issues' = <<>> /\ ipos' = 0
    /\ requested' = <<>> /\ log' = <<>> /\ ilog' = <<>> /\ emitted' = <<>>
    /\ remaining' = 0 /\ fetch_comments' = FALSE /\ warnings' = <<>>
    /\ cerror' = NoOutcome
    /\ UNCHANGED <<collector, params, repos, processed_issues, reqVars, pagVars, extVars,
                   mainVars>>

----------------------------------------------------------------------------
(* org_members, pipelines, modules_container_conversion: the resources main
   runs beside the collectors above *)

\* the collector is left by the error o
CollectorRaises(o, reqs) ==
    /\ cpc' = "raised" /\ cerror' = o
    /\ requested' = requested \o reqs
    /\ UNCHANGED <<log, emitted>>

MemberLists == {<<>>, <<"alice", "bob">>}
MemberChains == UNION {OkChains(L) \cup FailChains(L) : L \in MemberLists}

\* lines 304-311: no handler around the fetch
OrgMembers ==
    /\ cpc = "start" /\ collector = "org_members"
    /\ \E ch \in MemberChains :
         LET got == get_paginated_data(ch)
             rq == Req("", "members", 0)
         IN  IF got.kind = "raise"
             THEN CollectorRaises(got.error, <<rq>>)
             ELSE /\ requested' = Append(requested, rq)
                  /\ emitted' = Append(emitted, [num_members |-> Len(got.value)])
                  /\ cpc' = "done"
                  /\ UNCHANGED <<log, cerror>>
    /\ UNCHANGED <<collector, params, repos, filtered_repos, pos, issues, ipos, ilog,
                   processed_issues, checkpoint0, remaining, fetch_comments,
                   warnings, reqVars, pagVars, extVars, runVars, mainVars>>

\* the number of requests modules_container_conversion makes when all
\* answer: the tree and three code searches
ModuleStages == 4
ModuleCounts == {0, 2}

\* lines 541-554
ModulesRecord(total, with_pattern, with_topics, with_wave) ==
    [total_modules |-> total,
     modules_new_container_syntax |-> with_pattern,
     modules_old_container_syntax |->
        IF total # 0 THEN Some(total - with_pattern) ELSE None,
     modules_with_topics_version |-> with_topics,
     modules_without_topics_version |->
        IF total # 0 THEN Some(total - with_topics) ELSE None,
     modules_with_wave_containers |-> with_wave,
     modules_without_wave_containers |->
        IF total # 0 THEN Some(total - with_wave) ELSE None]

\* lines 425-554: the first request that fails ends the resource with its
\* error ("except Exception: raise")
ModulesConversion ==
    /\ cpc = "start" /\ collector = "modules_container_conversion"
    /\ \/ \E k \in 1..ModuleStages, f \in CollFail :
            CollectorRaises(github_request(f),
                            [j \in 1..k |-> Req("modules", "scan", j)])
       \/ \E total \in ModuleCounts :
            \E wp \in {0, total}, wt \in {0, total}, ww \in {0, total} :
              /\ requested' = requested
                              \o [j \in 1..ModuleStages |-> Req("modules", "scan", j)]
              /\ emitted' = Append(emitted, ModulesRecord(total, wp, wt, ww))
              /\ cpc' = "done"
              /\ UNCHANGED <<log, cerror>>
    /\ UNCHANGED <<collector, params, repos, filtered_repos, pos, issues, ipos, ilog,
                   processed_issues, checkpoint0, remaining, fetch_comments,
                   warnings, reqVars, pagVars, extVars, runVars, mainVars>>

\* what pipeline_names.json can list, and the releases of a repository
PipelineNameLists == {<<>>, <<"b">>, <<"x", "b">>}
Release(d) == [published_at |-> d]
ReleaseLists == {<<>>, <<Release(Some(950)), Release(Some(900))>>}
ReleaseChains ==
    {<<Page(Ok200, "list", L)>> : L \in ReleaseLists}
    \cup {<<Page(f, "other", <<>>)>> : f \in CollFail}

PipelineRecord(repo, category, last_release_date, number_of_releases) ==
    [name |-> repo.name, gh_updated_at |-> repo.updated_at,
     stargazers_count |-> repo.stargazers_count, archived |-> repo.archived,
     last_release_date |-> last_release_date,
     number_of_releases |-> number_of_releases, category |-> category]

RepoNamed(rs, n) == SelectSeq(rs, LAMBDA r : r.name = n)

\* lines 326-364: the loop over the pipeline names, names[i] served rel[i];
\* a name that is no repository is passed over, a failed release fetch
\* leaves the release fields empty
PipelineLoop(names, rel) ==
    LET step[i \in 0..Len(names)] ==
          IF i = 0 THEN [records |-> <<>>, log |-> <<>>, requested |-> <<>>]
          ELSE LET sofar == step[i - 1]
                   hit == RepoNamed(repos, names[i])
                   got == get_paginated_data(rel[i])
                   rq == Req(names[i], "releases", 0)
               IN  IF hit = <<>> THEN sofar
                   ELSE IF got.kind = "raise"
                   THEN [records |-> Append(sofar.records,
                                        PipelineRecord(hit[1], "pipeline", None, None)),
                         log |-> Append(sofar.log,
                                        LogEntry(names[i], "failed", got.error, <<>>)),
                         requested |-> Append(sofar.requested, rq)]
                   ELSE [records |-> Append(sofar.records,
                                        PipelineRecord(hit[1], "pipeline",
                                            IF Len(got.value) > 0
                                            THEN got.value[1].published_at ELSE None,
                                            Some(Len(got.value)))),
                         log |-> Append(sofar.log,
                                        LogEntry(names[i], "ok", NoOutcome, got.value)),
                         requested |-> Append(sofar.requested, rq)]
    IN  step[Len(names)]

\* lines 366-384: the repositories that are not pipelines
CoreRecords(names) ==
    LET core == SelectSeq(repos, LAMBDA r : ~\E i \in 1..Len(names) : names[i] = r.name)
    IN  [i \in 1..Len(core) |-> PipelineRecord(core[i], "core", None, None)]

\* lines 315-384
Pipelines ==
    /\ cpc = "start" /\ collector = "nfcore_pipelines"
    /\ \E hn \in {Ok200} \cup CollFail :
         LET names_rq == Req("", "pipeline_names", 0)
         IN  IF github_request(hn).kind = "raise"
             THEN /\ requested' = Append(requested, names_rq)
                  /\ log' = Append(log, LogEntry("", "failed", github_request(hn), <<>>))
                  /\ IF except_RequestException(github_request(hn))
                     THEN cpc' = "done" /\ UNCHANGED cerror
                     ELSE cpc' = "raised" /\ cerror' = github_request(hn)
                  /\ UNCHANGED emitted
             ELSE \E names \in PipelineNameLists :
                    \E rel \in [1..Len(names) -> ReleaseChains] :
                      LET did == PipelineLoop(names, rel)
                      IN  /\ requested' = requested \o <<names_rq>> \o did.requested
                          /\ log' = log \o did.log
                          /\ emitted' = emitted \o did.records \o CoreRecords(names)
                          /\ cpc' = "done"
                          /\ UNCHANGED cerror
    /\ UNCHANGED <<collector, params, repos, filtered_repos, pos, issues, ipos, ilog,
                   processed_issues, checkpoint0, remaining, fetch_comments,
                   warnings, reqVars, pagVars, extVars, runVars, mainVars>>

----------------------------------------------------------------------------
(* main *)

\* line 633: the quota below which main stops
MainQuotaFloor == 100
MainRateLevels == {MainQuotaFloor - 1, MainQuotaFloor}

\* lines 605-621, in the order written
all_resources ==
    <<"org_members", "modules_container_conversion", "nfcore_pipelines",
      "commit_stats", "traffic_stats", "issue_stats", "contributor_stats">>

\* the values of main's argument `resources`: None, or the names given
ResourceArgs ==
    {None, Some(<<>>), Some(<<"issue_stats">>),
     Some(<<"traffic_stats", "org_members">>)}

\* x in resources, for a list
InList(x, l) == \E k \in 1..Len(l) : l[k] = x

\* (faulty variant: the names are run in the order given)
ResourcesAsGiven(resources) ==
    IF IsNone(resources) THEN all_resources ELSE resources[1]

\* line 622
ResourcesToRun(resources) ==
    IF IsNone(resources) THEN all_resources
    ELSE SelectSeq(all_resources, LAMBDA x : InList(x, resources[1]))

\* the secret the run is configured with: missing, empty, or a token
Tokens == {None, Some(""), Some("ghp_token")}

ConfigError(t, m) ==
    [kind |-> "raise", exc_type |-> t, message |-> m, reset_datetime |-> None,
     status |-> 0]

\* (faulty variant: the token is not looked at)
get_github_headers_unchecked(tok) ==
    [kind |-> "return", exc_type |-> "", message |-> "", reset_datetime |-> None,
     status |-> 0]

\* _github.py lines 20-26.  The default argument dlt.secrets[...] is looked
\* up when the def statement runs; a missing secret fails there.
get_github_headers(tok) ==
    IF IsNone(tok) THEN ConfigError("ConfigFieldMissingException", "missing secret")
    ELSE IF tok[1] = "" THEN ConfigError("ValueError", "token is not configured")
    ELSE [kind |-> "return", exc_type |-> "", message |-> "",
          reset_datetime |-> None, status |-> 0]

\* the entries of mlog; error is kept for what ends main at startup
MainEvent(res, ev, rem, err, seen) ==
    [resource |-> res, event |-> ev, remaining |-> rem, error |-> err,
     rate_limit_seen |-> seen]

\* the organization's repositories as the listing of line 601 gives them
MainRepoLists == {<<RepoB>>}
MainRepoChains == UNION {OkChains(L) \cup FailChains(L) : L \in MainRepoLists}
\* the source state the invocation finds
MainCheckpoints ==
    {<<>>,
     Dict({<<"b", Some(Dict({<<str(1), Some(Entry(1, Some(130), Some("alice")))>>}))>>})}
\* traffic_only_active_repos, traffic_max_repos
MainTrafficParams == {p \in TrafficParams : p.only_active_repos /\ ~IsNone(p.max_repos)}

\* no generator is running
NoCollector ==
    /\ cpc' = "off" /\ collector' = "" /\ params' = NoParams
    /\ filtered_repos' = <<>> /\ pos' = 0 /\ issues' = <<>> /\ ipos' = 0
    /\ requested' = <<>> /\ log' = <<>> /\ ilog' = <<>> /\ emitted' = <<>>
    /\ checkpoint0' = <<>>
    /\ remaining' = 0 /\ fetch_comments' = FALSE /\ warnings' = <<>>
    /\ cerror' = NoOutcome

\* main ends with the error e
MainFails(e) ==
    /\ mpc' = "failed"
    /\ mlog' = Append(mlog, MainEvent("", "raised", None, e, FALSE))

\* line 594
MainHeaders ==
    /\ mpc = "start"
    /\ IF get_github_headers(api_token).kind = "raise"
       THEN MainFails(get_github_headers(api_token))
       ELSE mpc' = "check" /\ UNCHANGED mlog
    /\ UNCHANGED <<api_token, resources_to_run, ridx, colVars, reqVars, pagVars, extVars, runVars>>

\* line 598: the answer is logged and not acted on
MainInitialCheck ==
    /\ mpc = "check"
    /\ \E h \in {Ok200, Http403Perm, NetworkFailure}, rem \in MainRateLevels :
         LET rate_status == check_rate_limit(h, rem)
         IN  IF rate_status.kind = "raise"
             THEN /\ mpc' = "failed"
                  /\ mlog' = mlog \o <<MainEvent("", "check", None, rate_status, FALSE),
                                       MainEvent("", "raised", None, rate_status, FALSE)>>
             ELSE /\ mpc' = "repos"
                  /\ mlog' = Append(mlog, MainEvent("", "check", Some(rem), NoOutcome,
                                                    FALSE))
    /\ UNCHANGED <<api_token, resources_to_run, ridx, colVars, reqVars, pagVars, extVars, runVars>>

\* lines 600-624
MainRepos ==
    /\ mpc = "repos"
    /\ \E ch \in MainRepoChains, resources \in ResourceArgs :
         LET got == get_paginated_data(ch)
         IN  IF got.kind = "raise"
             THEN /\ mpc' = "failed"
                  /\ mlog' = mlog \o <<MainEvent("", "repos", None, got.error, FALSE),
                                       MainEvent("", "raised", None, got.error, FALSE)>>
                  /\ UNCHANGED <<repos, resources_to_run, ridx>>
             ELSE /\ repos' = got.value
                  /\ resources_to_run' = ResourcesToRun(resources)
                  /\ ridx' = 1
                  /\ mpc' = "loop"
                  /\ mlog' = Append(mlog, MainEvent("", "repos", None, NoOutcome, FALSE))
    /\ UNCHANGED <<api_token, cpc, collector, params, filtered_repos, pos, issues, ipos,
                   requested, log, ilog, emitted, processed_issues, checkpoint0,
                   remaining, fetch_comments, warnings, cerror,
                   reqVars, pagVars, extVars, runVars>>

\* (faulty variant: the loop goes on below the floor)
BelowFloorNever(rem) == FALSE

\* line 633
BelowFloor(rem) == rem < MainQuotaFloor

\* lines 626-640: the next resource, up to the start of pipeline.run; a
\* check that raises is caught by the handlers of 652-661, which go on
MainNext ==
    /\ mpc = "loop" /\ ridx <= Len(resources_to_run)
    /\ LET name == resources_to_run[ridx]
       IN  \E h \in {Ok200, NetworkFailure}, rem \in MainRateLevels :
             LET rate_status == check_rate_limit(h, rem)
             IN  IF rate_status.kind = "raise"
                 THEN /\ mlog' = Append(mlog, MainEvent(name, "check_failed", None,
                                                        NoOutcome, FALSE))
                      /\ ridx' = ridx + 1
                      /\ UNCHANGED <<mpc, colVars>>
                 ELSE IF BelowFloor(rate_status.status)
                 THEN /\ mlog' = Append(mlog, MainEvent(name, "stopped", Some(rem),
                                                        NoOutcome, FALSE))
                      /\ mpc' = "done"
                      /\ UNCHANGED <<ridx, colVars>>
                 ELSE /\ mlog' = Append(mlog, MainEvent(name, "started", Some(rem),
                                                        NoOutcome, FALSE))
                      /\ mpc' = "resource"
                      /\ cpc' = "start" /\ collector' = name
                      /\ IF name = "traffic_stats"
                         THEN params' \in MainTrafficParams
                         ELSE params' = NoParams
                      /\ checkpoint0' = processed_issues
                      /\ UNCHANGED <<ridx, repos, filtered_repos, pos, issues, ipos,
                                     requested, log, ilog, emitted, processed_issues,
                                     remaining, fetch_comments, warnings, cerror>>
    /\ UNCHANGED <<api_token, resources_to_run, reqVars, pagVars, extVars, runVars>>

\* a rate-limit error of github_request was met while the resource ran
RateLimitSeen ==
    \/ IsRateLimitError(cerror)
    \/ \E i \in 1..Len(log) : IsRateLimitError(log[i].error)
    \/ \E i \in 1..Len(ilog) : IsRateLimitError(ilog[i].error)

\* what pipeline.run raises when the generator raised e: e, or the
\* pipeline's own error around it, whose text holds e's
PipelineStepFailed(e) == [e EXCEPT !.exc_type = "PipelineStepFailed"]
PipelineRunRaises(e) == {e, PipelineStepFailed(e)}

\* lines 652-661
MainHandler(e) ==
    IF e.exc_type = "HTTPError" /\ IsRateLimitError(e) THEN "break" ELSE "continue"

\* lines 640-661: pipeline.run has returned or raised
MainResourceEnd ==
    /\ mpc = "resource" /\ cpc \in {"done", "raised"}
    /\ LET name == resources_to_run[ridx]
       IN  IF cpc = "done"
           THEN /\ mlog' = Append(mlog, MainEvent(name, "completed", None, NoOutcome,
                                                  RateLimitSeen))
                /\ ridx' = ridx + 1 /\ mpc' = "loop"
           ELSE \E e \in PipelineRunRaises(cerror) :
                  IF MainHandler(e) = "break"
                  THEN /\ mlog' = Append(mlog, MainEvent(name, "rate_limited", None,
                                                         NoOutcome, RateLimitSeen))
                       /\ mpc' = "done" /\ UNCHANGED ridx
                  ELSE /\ mlog' = Append(mlog, MainEvent(name, "failed", None,
                                                         NoOutcome, RateLimitSeen))
                       /\ ridx' = ridx + 1 /\ mpc' = "loop"
    /\ NoCollector
    /\ UNCHANGED <<api_token, resources_to_run, repos, processed_issues,
                   reqVars, pagVars, extVars, runVars>>

\* lines 663-665: the loop is exhausted
MainDone ==
    /\ mpc = "loop" /\ ridx > Len(resources_to_run)
    /\ mpc' = "done"
    /\ UNCHANGED <<api_token, resources_to_run, ridx, mlog, colVars, reqVars, pagVars, extVars,
                   runVars>>

----------------------------------------------------------------------------
(* strict_syntax_pipeline.py: strict_syntax_source run after run *)

\* lines 251 and 254: the upper ends of the "low" buckets
ErrorsLowMax == 5
WarningsLowMax == 20

\* what `git ls-remote` did: raised CalledProcessError, or printed `out`
\* (nothing, or one line that starts with the SHA)
LsRemote(failed, out) == [failed |-> failed, out |-> out]
\* the two calls of get_remote_head_sha: refs/heads/dev, then HEAD
RemoteAnswers ==
    {[dev |-> LsRemote(FALSE, Some("p1")), head |-> LsRemote(FALSE, Some("p0"))],
     [dev |-> LsRemote(FALSE, Some("p2")), head |-> LsRemote(FALSE, Some("p0"))],
     [dev |-> LsRemote(FALSE, None), head |-> LsRemote(FALSE, Some("p1"))],
     [dev |-> LsRemote(FALSE, None), head |-> LsRemote(FALSE, None)],
     [dev |-> LsRemote(FALSE, None), head |-> LsRemote(TRUE, None)],
     [dev |-> LsRemote(TRUE, None), head |-> LsRemote(FALSE, Some("p1"))]}

\* lines 37-58
get_remote_head_sha(ra) ==
    IF ra.dev.failed THEN None
    ELSE IF ~IsNone(ra.dev.out) THEN ra.dev.out
    ELSE IF ra.head.failed THEN None
    ELSE ra.head.out

\* the entries of last_analyzed (line 214)
Analyzed(nf, psha) == [nf_sha |-> nf, pipeline_sha |-> psha]

\* (faulty variant: the Nextflow SHA is not compared)
CanSkipIgnoringNextflow(pipeline_sha, cached, nf) ==
    /\ ~IsNone(pipeline_sha)
    /\ ~IsNone(cached)
    /\ cached[1].pipeline_sha = pipeline_sha

\* lines 189-194; cached is None where last_analyzed has no entry, and
\* then both .get() give None
CanSkip(pipeline_sha, cached, nf) ==
    /\ ~IsNone(pipeline_sha)
    /\ ~IsNone(cached) /\ cached[1].nf_sha = nf
    /\ ~IsNone(cached) /\ cached[1].pipeline_sha = pipeline_sha

\* what clone_pipeline and lint_pipeline can come to for a pipeline:
\* git failed (CalledProcessError), nextflow was not found
\* (FileNotFoundError), the output was not JSON, or a report was parsed
LintOutcome(k, e, w) == [kind |-> k, errors |-> e, warnings |-> w]
LintOutcomes ==
    {LintOutcome("clone_failed", 0, 0), LintOutcome("nextflow_missing", 0, 0),
     LintOutcome("not_json", 0, 0),
     LintOutcome("report", 0, 0),
     LintOutcome("report", ErrorsLowMax, WarningsLowMax + 1),
     LintOutcome("report", ErrorsLowMax + 1, WarningsLowMax)}

\* lines 150-158: what lint_pipeline returns
lint_pipeline(out) ==
    IF out.kind = "report"
    THEN [errors |-> out.errors, warnings |-> out.warnings, parse_error |-> FALSE]
    ELSE [errors |-> 0, warnings |-> 0, parse_error |-> TRUE]

\* lines 203-212 and 217-226
LintResult(name, e, w, pe, psha, nf) ==
    [name |-> name, errors |-> e, warnings |-> w, parse_error |-> pe,
     commit_sha |-> psha, nextflow_sha |-> nf]

\* sum(1 for r in rs if P(r))
CountIf(rs, P(_)) == Cardinality({i \in 1..Len(rs) : P(rs[i])})

\* sum(r[field] for r in rs), for the fields errors and warnings
RECURSIVE SumErrors(_)
SumErrors(rs) == IF rs = <<>> THEN 0 ELSE rs[1].errors + SumErrors(Tail(rs))
RECURSIVE SumWarnings(_)
SumWarnings(rs) == IF rs = <<>> THEN 0 ELSE rs[1].warnings + SumWarnings(Tail(rs))

\* (faulty variant: the low bucket of errors stops short of its upper end)
ErrorsLowOpen(e) == 0 < e /\ e < ErrorsLowMax

\* line 251
ErrorsLow(e) == 0 < e /\ e <= ErrorsLowMax

\* lines 239-258: the record strict_syntax_history yields
strict_syntax_history(rs, nf) ==
    LET valid_results == SelectSeq(rs, LAMBDA r : ~r.parse_error)
    IN  [nextflow_sha |-> nf,
         total_pipelines |-> Len(rs),
         parse_errors |-> CountIf(rs, LAMBDA r : r.parse_error),
         errors_zero |-> CountIf(valid_results, LAMBDA r : r.errors = 0),
         errors_low |-> CountIf(valid_results, LAMBDA r : ErrorsLow(r.errors)),
         errors_high |-> CountIf(valid_results, LAMBDA r : r.errors > ErrorsLowMax),
         warnings_zero |-> CountIf(valid_results, LAMBDA r : r.warnings = 0),
         warnings_low |->
            CountIf(valid_results,
                    LAMBDA r : 0 < r.warnings /\ r.warnings <= WarningsLowMax),
         warnings_high |->
            CountIf(valid_results, LAMBDA r : r.warnings > WarningsLowMax),
         total_errors |-> SumErrors(valid_results),
         total_warnings |-> SumWarnings(valid_results)]

\* remote_workflows of nf-co.re/pipelines.json
Workflow(n, arch) == [name |-> n, archived |-> arch]
RemoteWorkflows == <<Workflow("x", FALSE), Workflow("z", TRUE), Workflow("y", FALSE)>>
\* the argument pipelines_filter
PipelineFilters == {None, Some(<<>>), Some(<<"y">>)}
NextflowHeads == {"n1", "n2"}

\* lines 83-91: the names of the workflows that are not archived
fetch_pipelines(data) ==
    LET active == SelectSeq(data, LAMBDA w : ~w.archived)
    IN  [i \in 1..Len(active) |-> active[i].name]

\* lines 175-177; an empty filter is no filter
FilterPipelines(names, pipelines_filter) ==
    IF IsNone(pipelines_filter) \/ pipelines_filter = Some(<<>>) THEN names
    ELSE SelectSeq(names, LAMBDA n : InList(n, pipelines_filter[1]))

\* the entries of slog
SyntaxLogEntry(name, psha, cached, did) ==
    [name |-> name, pipeline_sha |-> psha, cached |-> cached, did |-> did]

\* lines 164-178: the source state, the Nextflow HEAD and the pipelines.
\* get_nextflow_sha and fetch_pipelines raise when git or the request fails.
SyntaxStart ==
    /\ spc = "start"
    /\ \E git_ok \in BOOLEAN, http_ok \in BOOLEAN, nf \in NextflowHeads,
          pipelines_filter \in PipelineFilters :
         IF ~git_ok \/ ~http_ok
         THEN /\ spc' = "raised"
              /\ UNCHANGED <<nf_sha, pipelines, sidx>>
         ELSE /\ nf_sha' = nf
              /\ pipelines' = FilterPipelines(fetch_pipelines(RemoteWorkflows),
                                              pipelines_filter)
              /\ sidx' = 1
              /\ spc' = "loop"
    /\ UNCHANGED <<results, slog, last_analyzed, last_analyzed0, history_out, srun,
                   gqlVars, slackVars, reqVars, pagVars, colVars, runVars, mainVars>>

\* lines 183-226: one pipeline
SyntaxOne ==
    /\ spc = "loop" /\ sidx <= Len(pipelines)
    /\ LET name == pipelines[sidx]
       IN  \E ra \in RemoteAnswers :
             LET pipeline_sha == get_remote_head_sha(ra)
                 cached == IF name \in DOMAIN last_analyzed
                           THEN Some(last_analyzed[name]) ELSE None
             IN  IF CanSkip(pipeline_sha, cached, nf_sha)
                 THEN /\ slog' = Append(slog, SyntaxLogEntry(name, pipeline_sha, cached,
                                                             "skipped"))
                      /\ sidx' = sidx + 1
                      /\ UNCHANGED <<spc, results, last_analyzed>>
                 ELSE \E out \in LintOutcomes :
                        /\ slog' = Append(slog, SyntaxLogEntry(name, pipeline_sha, cached,
                                                               out.kind))
                        /\ IF out.kind = "nextflow_missing"
                           THEN /\ spc' = "raised"
                                /\ UNCHANGED <<sidx, results, last_analyzed>>
                           ELSE IF out.kind = "clone_failed"
                           THEN /\ results' = Append(results,
                                        LintResult(name, 0, 0, TRUE, pipeline_sha, nf_sha))
                                /\ sidx' = sidx + 1
                                /\ UNCHANGED <<spc, last_analyzed>>
                           ELSE LET lint_result == lint_pipeline(out)
                                IN  /\ results' = Append(results,
                                          LintResult(name, lint_result.errors,
                                                     lint_result.warnings,
                                                     lint_result.parse_error,
                                                     pipeline_sha, nf_sha))
                                    /\ last_analyzed' =
                                          Put(last_analyzed, name,
                                              Analyzed(nf_sha, pipeline_sha))
                                    /\ sidx' = sidx + 1
                                    /\ UNCHANGED spc
    /\ UNCHANGED <<nf_sha, pipelines, last_analyzed0, history_out, srun,
                   gqlVars, slackVars, reqVars, pagVars, colVars, runVars, mainVars>>

\* lines 228-233 and 236-258: the loop is over, the history record is made
SyntaxEnd ==
    /\ spc = "loop" /\ sidx > Len(pipelines)
    /\ history_out' = Some(strict_syntax_history(results, nf_sha))
    /\ spc' = "done"
    /\ UNCHANGED <<nf_sha, pipelines, sidx, results, slog, last_analyzed,
                   last_analyzed0, srun,
                   gqlVars, slackVars, reqVars, pagVars, colVars, runVars, mainVars>>

\* the next scheduled run: dlt.current.source_state() hands it the
\* last_analyzed the run before left; after a run that raised, what dlt
\* kept of that run's writes is either all or nothing
SyntaxNextRun ==
    /\ spc \in {"done", "raised"}
    /\ srun >= 1 /\ srun < MaxRuns
    /\ srun' = srun + 1
    /\ \/ last_analyzed' = last_analyzed
       \/ spc = "raised" /\ last_analyzed' = last_analyzed0
    /\ last_analyzed0' = last_analyzed'
    /\ spc' = "start" /\ nf_sha' = "" /\ pipelines' = <<>> /\ sidx' = 0
    /\ results' = <<>> /\ slog' = <<>> /\ history_out' = None
    /\ UNCHANGED <<gqlVars, slackVars, reqVars, pagVars, colVars, runVars, mainVars>>

----------------------------------------------------------------------------
(* The legacy GraphQL source (src/pipeline/github_pipeline.py): the
   incremental resource `repositories` *)

\* a node of organization.repositories; updatedAt in days
Node(n, upd) == [name |-> n, updatedAt |-> upd]
\* one answer of graphql_request: it raised, or gave nodes and pageInfo
GqlPage(ok, nodes, hasNextPage) ==
    [ok |-> ok, nodes |-> nodes, hasNextPage |-> hasNextPage]

GqlReturn(y, reqs) == [kind |-> "return", yielded |-> y, requested |-> reqs]
GqlRaise(y, reqs) == [kind |-> "raise", yielded |-> y, requested |-> reqs]
NoGqlOut == [kind |-> "none", yielded |-> <<>>, requested |-> <<>>]

\* (faulty variant: a repository updated exactly at last_value is left out)
UpdatedSinceStrict(nodes, lv) ==
    LET older == {i \in 1..Len(nodes) : nodes[i].updatedAt <= lv}
    IN  IF older = {} THEN nodes
        ELSE SubSeq(nodes, 1, (CHOOSE i \in older : \A j \in older : i <= j) - 1)

\* lines 133-141: the nodes of a page up to the first one updated before
\* last_value
UpdatedSince(nodes, lv) ==
    LET older == {i \in 1..Len(nodes) : nodes[i].updatedAt < lv}
    IN  IF older = {} THEN nodes
        ELSE SubSeq(nodes, 1, (CHOOSE i \in older : \A j \in older : i <= j) - 1)

\* lines 126-176: the while loop, from the page the cursor points at
RECURSIVE RepositoriesLoop(_, _, _, _, _)
RepositoriesLoop(pages, cursor, lv, yielded, reqs) ==
    LET data == pages[cursor]
        filtered == UpdatedSince(data.nodes, lv)  \* filtered_repos
    IN  IF ~data.ok
        THEN GqlRaise(yielded, Append(reqs, cursor))
        ELSE IF ~data.hasNextPage \/ filtered = <<>>
        THEN GqlReturn(yielded \o filtered, Append(reqs, cursor))
        ELSE RepositoriesLoop(pages, cursor + 1, lv, yielded \o filtered,
                              Append(reqs, cursor))

\* lines 122-123: cursor = None asks for the first page
repositories(pages, lv) == RepositoriesLoop(pages, 1, lv, <<>>, <<>>)

\* ---- what the server holds and how it serves it
RepoNames == <<"r1", "r2", "r3", "r4", "r5">>
UpdateDays == {4, 5, 6}
\* the organization's repositories in the order the server lists them
NodeLists ==
    UNION {{[i \in 1..n |-> Node(RepoNames[i], t[i])] : t \in [1..n -> UpdateDays]}
           : n \in 0..MaxItems}
\* `first: 100` of the query, scaled down
GqlPageSizes == {1, 2}
\* the number of pages of size sz a list of n nodes takes
PageCount(n, sz) == IF n = 0 THEN 1 ELSE (n + sz - 1) \div sz
\* the listing l served in pages of sz nodes; the request for page f fails
\* (f = 0: none does)
GqlPagesOf(l, sz, f) ==
    [j \in 1..PageCount(Len(l), sz) |->
        GqlPage(j # f,
                SubSeq(l, (j - 1) * sz + 1, Min(j * sz, Len(l))),
                j < PageCount(Len(l), sz))]
\* updated_at.last_value: the initial value, or the newest updated_at of
\* an earlier run
LastValues == {0, 5, 6, 7}

Repositories ==
    /\ gpc = "call"
    /\ gql_out' = repositories(gql_pages, last_value)
    /\ gpc' = "done"
    /\ UNCHANGED <<gql_pages, last_value, synVars, slackVars, reqVars, pagVars,
                   colVars, runVars, mainVars>>

----------------------------------------------------------------------------
(* slack_pipeline.py: paginate_slack_api and slack_stats_resource *)

\* what a list handed to the callers holds: a member of users.list, a
\* batch of team.billableInfo (a dict user id -> billing info, kept as its
\* entries in order), or a bare user id
Member(id, deleted) == [kind |-> "member", id |-> id, deleted |-> deleted]
Billing(id, active) == [id |-> id, billing_active |-> active]
Batch(entries) == [kind |-> "dict", entries |-> entries]
Key(id) == [kind |-> "str", id |-> id]

\* what response.get(data_key) is: a list with `items`, or the dict `items[1]`
Body(shape, its) == [shape |-> shape, items |-> its]
\* one call of the API method: kind is "ok", "not_ok" (ok = false),
\* "SlackApiError", or "URLError" (an error that is not a SlackApiError)
SlackPage(kind, body) == [kind |-> kind, body |-> body]

\* list.extend(x): the elements of a list, the keys of a dict
Extend(body) ==
    IF body.shape = "dict"
    THEN [i \in 1..Len(body.items[1].entries) |-> Key(body.items[1].entries[i].id)]
    ELSE body.items

SlackReturn(v, calls) == [kind |-> "return", value |-> v, calls |-> calls]
SlackRaise(calls) == [kind |-> "raise", value |-> <<>>, calls |-> calls]
NoCall == [kind |-> "none", value |-> <<>>, calls |-> <<>>]

\* (faulty variant: a failed call loses what was fetched before it)
RECURSIVE PaginateSlackAllOrNothing(_, _, _, _)
PaginateSlackAllOrNothing(pages, cursor, all_results, calls) ==
    LET response == pages[cursor]
    IN  IF response.kind = "URLError" THEN SlackRaise(Append(calls, cursor))
        ELSE IF response.kind # "ok" THEN SlackReturn(<<>>, Append(calls, cursor))
        ELSE IF cursor = Len(pages)
        THEN SlackReturn(all_results \o Extend(response.body), Append(calls, cursor))
        ELSE PaginateSlackAllOrNothing(pages, cursor + 1,
                                       all_results \o Extend(response.body),
                                       Append(calls, cursor))

\* lines 50-76: the while loop, from the page the cursor points at; page
\* j carries a next_cursor to page j+1, the last page carries none
RECURSIVE PaginateSlack(_, _, _, _)
PaginateSlack(pages, cursor, all_results, calls) ==
    LET response == pages[cursor]
    IN  IF response.kind = "URLError" THEN SlackRaise(Append(calls, cursor))
        ELSE IF response.kind = "SlackApiError"
        THEN SlackReturn(all_results, Append(calls, cursor))
        ELSE IF response.kind = "not_ok"
        THEN SlackReturn(all_results, Append(calls, cursor))
        ELSE IF cursor = Len(pages)
        THEN SlackReturn(all_results \o Extend(response.body), Append(calls, cursor))
        ELSE PaginateSlack(pages, cursor + 1, all_results \o Extend(response.body),
                           Append(calls, cursor))

\* lines 47-48: cursor = None asks for the first page
paginate_slack_api(pages) == PaginateSlack(pages, 1, <<>>, <<>>)

\* (faulty variant: every billing-active id is counted)
CountedActiveAnyId(e, valid_user_ids) == e.billing_active

\* line 100
CountedActive(e, valid_user_ids) == e.billing_active /\ e.id \in valid_user_ids

\* lines 92-104: the ids counted from the batches that are dicts
ActiveUsers(all_billable_data, valid_user_ids) ==
    UNION {{b.entries[i].id : i \in {i \in 1..Len(b.entries) :
                                        CountedActive(b.entries[i], valid_user_ids)}}
           : b \in {x \in Range(all_billable_data) : x.kind = "dict"}}

\* lines 133-143
validate_user_counts(total_users, active_users) ==
    LET inactive_users == total_users - active_users
    IN  IF inactive_users < 0
        THEN (IF inactive_users > 0 THEN inactive_users ELSE 0)
        ELSE inactive_users

SlackOut(kind, rec, members, billing) ==
    [kind |-> kind, record |-> rec, members |-> members, billing |-> billing]
NoRecord == [total_users |-> 0, active_users |-> 0, inactive_users |-> 0]
NoSlackOut == SlackOut("none", NoRecord, NoCall, NoCall)

\* lines 192-234, with get_active_users_from_billing_info (79-118) inlined
slack_stats_resource(upages, bpages) ==
    LET members == paginate_slack_api(upages)
        all_members == members.value
        active_account_users == SelectSeq(all_members, LAMBDA u : ~u.deleted)
        total_users == Len(active_account_users)
        valid_user_ids == {active_account_users[i].id : i \in 1..total_users}
        billing == paginate_slack_api(bpages)
        active_users == Cardinality(ActiveUsers(billing.value, valid_user_ids))
    IN  IF members.kind = "raise" THEN SlackOut("raise", NoRecord, members, NoCall)
        ELSE IF all_members = <<>> THEN SlackOut("empty", NoRecord, members, NoCall)
        ELSE IF billing.kind = "raise" \/ billing.value = <<>>
        THEN SlackOut("raise", NoRecord, members, billing)
        ELSE SlackOut("record",
                      [total_users |-> total_users, active_users |-> active_users,
                       inactive_users |->
                          validate_user_counts(total_users, active_users)],
                      members, billing)

\* ---- what the workspace holds and how the API serves it
MemberSets ==
    {<<>>,
     <<Member("U1", FALSE), Member("U2", TRUE)>>,
     <<Member("U1", FALSE), Member("U2", TRUE), Member("U3", FALSE)>>,
     <<Member("U1", FALSE), Member("U1", FALSE)>>}
BillingSets ==
    {<<>>,
     <<Billing("U1", TRUE), Billing("U2", TRUE), Billing("U9", TRUE)>>,
     <<Billing("U1", FALSE), Billing("U3", TRUE)>>}
\* `limit` of the calls, scaled down
SlackPageSizes == {1, 2}
SlackFailures == {"not_ok", "SlackApiError", "URLError"}

\* the slice of l that page j of size sz holds
Slice(l, sz, j) == SubSeq(l, (j - 1) * sz + 1, Min(j * sz, Len(l)))
\* l served in pages of sz; the call for page f fails as `how` (f = 0:
\* none fails); Wrap makes the body of a page from its slice
SlackPagesOf(l, sz, f, how, Wrap(_)) ==
    [j \in 1..PageCount(Len(l), sz) |->
        IF j = f THEN SlackPage(how, Body("list", <<>>))
        ELSE SlackPage("ok", Wrap(Slice(l, sz, j)))]
SlackChains(lists, Wrap(_)) ==
    UNION {UNION {{SlackPagesOf(l, sz, 0, "ok", Wrap)}
                  \cup {SlackPagesOf(l, sz, f, how, Wrap) :
                          f \in 1..PageCount(Len(l), sz), how \in SlackFailures}
                  : sz \in SlackPageSizes}
           : l \in lists}
\* users.list answers with a list of members
UsersChains == SlackChains(MemberSets, LAMBDA sl : Body("list", sl))
\* team.billableInfo answers with a dict, or with a list of dicts
BillingChains ==
    SlackChains(BillingSets, LAMBDA sl : Body("dict", <<Batch(sl)>>))
    \cup SlackChains(BillingSets, LAMBDA sl : Body("list", <<Batch(sl)>>))

SlackStatsResource ==
    /\ slpc = "call"
    /\ slack_out' = slack_stats_resource(users_pages, billing_pages)
    /\ slpc' = "done"
    /\ UNCHANGED <<users_pages, billing_pages, synVars, gqlVars, reqVars, pagVars,
                   colVars, runVars, mainVars>>

----------------------------------------------------------------------------
(* Specifications *)

ReqOff == rpc = "off" /\ hist = <<>> /\ sleeps = <<>> /\ outcome = NoOutcome
PagOff == ppc = "off" /\ items = <<>> /\ chain = <<>> /\ presult = NoResult
ColOff ==
    /\ cpc = "off" /\ collector = "" /\ params = <<>> /\ repos = <<>>
    /\ filtered_repos = <<>> /\ pos = 0 /\ issues = <<>> /\ ipos = 0
    /\ requested = <<>> /\ log = <<>> /\ ilog = <<>> /\ emitted = <<>>
    /\ processed_issues = <<>> /\ checkpoint0 = <<>>
    /\ remaining = 0 /\ fetch_comments = FALSE /\ warnings = <<>>
    /\ cerror = NoOutcome

RunOff == run = 0 /\ history = <<>>
MainOff ==
    /\ mpc = "off" /\ api_token = None /\ resources_to_run = <<>> /\ ridx = 0
    /\ mlog = <<>>

SynOff ==
    /\ spc = "off" /\ nf_sha = "" /\ pipelines = <<>> /\ sidx = 0
    /\ results = <<>> /\ slog = <<>> /\ last_analyzed = <<>>
    /\ last_analyzed0 = <<>> /\ history_out = None /\ srun = 0
GqlOff == gpc = "off" /\ gql_pages = <<>> /\ last_value = 0 /\ gql_out = NoGqlOut
SlackOff ==
    /\ slpc = "off" /\ users_pages = <<>> /\ billing_pages = <<>>
    /\ slack_out = NoSlackOut

\* one call of github_request
InitReq ==
    /\ rpc = "attempt" /\ hist = <<>> /\ sleeps = <<>> /\ outcome = NoOutcome
    /\ PagOff /\ ColOff /\ RunOff /\ MainOff /\ SynOff /\ GqlOff /\ SlackOff
NextReq == HttpAttempt \/ HttpSleep \/ GithubRequestEnd
SpecReq == InitReq /\ [][NextReq]_vars

\* one call of get_paginated_data
InitPag ==
    /\ ppc = "call" /\ presult = NoResult
    /\ items \in ItemLists
    /\ \E k \in 1..MaxPages :
        \E c \in Cuts(Len(items), k), h \in [1..k -> PageHttp],
           sh \in [1..k -> PageShapes] :
            chain = ChainOf(items, k, c, h, sh)
    /\ ReqOff /\ ColOff /\ RunOff /\ MainOff /\ SynOff /\ GqlOff /\ SlackOff
NextPag == GetPaginatedData
SpecPag == InitPag /\ [][NextPag]_vars
\* the call, once made, runs: nothing else is scheduled with it
SpecPagLive == SpecPag /\ WF_vars(GetPaginatedData)


\* one run of one collector
InitColl ==
    /\ cpc = "start"
    /\ collector \in {"traffic_stats", "contributor_stats", "commit_stats", "issue_stats"}
    /\ \/ collector = "traffic_stats" /\ params \in TrafficParams
          /\ repos \in RepoListsOver({RepoA, RepoB, RepoC, RepoD})
       \/ collector # "traffic_stats" /\ params = NoParams
          /\ repos \in RepoListsOver({RepoA, RepoB})
    /\ \/ collector = "issue_stats" /\ processed_issues \in Checkpoints
       \/ collector # "issue_stats" /\ processed_issues = <<>>
    /\ checkpoint0 = processed_issues
    /\ filtered_repos = <<>> /\ pos = 0 /\ issues = <<>> /\ ipos = 0
    /\ requested = <<>> /\ log = <<>> /\ ilog = <<>> /\ emitted = <<>>
    /\ remaining = 0 /\ fetch_comments = FALSE /\ warnings = <<>>
    /\ cerror = NoOutcome
    /\ ReqOff /\ PagOff /\ RunOff /\ MainOff /\ SynOff /\ GqlOff /\ SlackOff
NextColl ==
    \/ TrafficStart \/ TrafficRepo
    \/ ContributorStart \/ ContributorRepo
    \/ CommitStart \/ CommitRepo
    \/ IssueStart \/ IssueRepo \/ IssueOne
    \/ CollectorDone
SpecColl == InitColl /\ [][NextColl]_vars

\* the runs of issue_stats of a pipeline whose source state starts empty
InitRuns ==
    /\ cpc = "start" /\ collector = "issue_stats" /\ params = NoParams
    /\ repos = <<RepoA>>
    /\ processed_issues = <<>> /\ checkpoint0 = <<>>
    /\ filtered_repos = <<>> /\ pos = 0 /\ issues = <<>> /\ ipos = 0
    /\ requested = <<>> /\ log = <<>> /\ ilog = <<>> /\ emitted = <<>>
    /\ remaining = 0 /\ fetch_comments = FALSE /\ warnings = <<>>
    /\ cerror = NoOutcome
    /\ run = 1 /\ history = <<>>
    /\ ReqOff /\ PagOff /\ MainOff /\ SynOff /\ GqlOff /\ SlackOff
NextRuns == IssueStart \/ IssueRepo \/ IssueOne \/ CollectorDone \/ NextRun
SpecRuns == InitRuns /\ [][NextRuns]_vars

\* one invocation of main
InitMain ==
    /\ mpc = "start" /\ api_token \in Tokens
    /\ resources_to_run = <<>> /\ ridx = 0 /\ mlog = <<>>
    /\ cpc = "off" /\ collector = "" /\ params = NoParams /\ repos = <<>>
    /\ filtered_repos = <<>> /\ pos = 0 /\ issues = <<>> /\ ipos = 0
    /\ requested = <<>> /\ log = <<>> /\ ilog = <<>> /\ emitted = <<>>
    /\ processed_issues \in MainCheckpoints /\ checkpoint0 = <<>>
    /\ remaining = 0 /\ fetch_comments = FALSE /\ warnings = <<>>
    /\ cerror = NoOutcome
    /\ ReqOff /\ PagOff /\ RunOff /\ SynOff /\ GqlOff /\ SlackOff
NextMain ==
    \/ MainHeaders \/ MainInitialCheck \/ MainRepos \/ MainNext
    \/ MainResourceEnd \/ MainDone
    \/ OrgMembers \/ ModulesConversion \/ Pipelines
    \/ TrafficStart \/ TrafficRepo
    \/ ContributorStart \/ ContributorRepo
    \/ CommitStart \/ CommitRepo
    \/ IssueStart \/ IssueRepo \/ IssueOne
    \/ CollectorDone
SpecMain == InitMain /\ [][NextMain]_vars

\* the runs of strict_syntax_source of a pipeline whose source state starts
\* empty
InitSyntax ==
    /\ spc = "start" /\ nf_sha = "" /\ pipelines = <<>> /\ sidx = 0
    /\ results = <<>> /\ slog = <<>> /\ last_analyzed = <<>>
    /\ last_analyzed0 = <<>> /\ history_out = None /\ srun = 1
    /\ ReqOff /\ PagOff /\ ColOff /\ RunOff /\ MainOff /\ GqlOff /\ SlackOff
NextSyntax == SyntaxStart \/ SyntaxOne \/ SyntaxEnd \/ SyntaxNextRun
SpecSyntax == InitSyntax /\ [][NextSyntax]_vars

\* one run of the resource `repositories`
InitGql ==
    /\ gpc = "call" /\ gql_out = NoGqlOut
    /\ last_value \in LastValues
    /\ \E l \in NodeLists, sz \in GqlPageSizes :
         \E f \in 0..PageCount(Len(l), sz) : gql_pages = GqlPagesOf(l, sz, f)
    /\ ReqOff /\ PagOff /\ ColOff /\ RunOff /\ MainOff /\ SynOff /\ SlackOff
NextGql == Repositories
SpecGql == InitGql /\ [][NextGql]_vars

\* one run of slack_stats_resource
InitSlack ==
    /\ slpc = "call" /\ slack_out = NoSlackOut
    /\ users_pages \in UsersChains
    /\ billing_pages \in BillingChains
    /\ ReqOff /\ PagOff /\ ColOff /\ RunOff /\ MainOff /\ SynOff /\ GqlOff
NextSlack == SlackStatsResource
SpecSlack == InitSlack /\ [][NextSlack]_vars

----------------------------------------------------------------------------
(* Properties of get_paginated_data (SpecPag) *)

IsPageBody(pg) == pg.shape \in {"list", "items"}
Fetched(pg) == ~pg.http.exc /\ pg.http.status = 200

RECURSIVE Concat(_, _)
\* the items of pages 1..n of ch, in page order
Concat(ch, n) == IF n = 0 THEN <<>> ELSE Concat(ch, n - 1) \o ch[n].items

\* page f is the first page whose fetch fails, and pagination gets to it
FirstFailingPage(f) ==
    /\ f \in 1..Len(chain)
    /\ ~Fetched(chain[f])
    /\ \A j \in 1..(f - 1) : Fetched(chain[j]) /\ IsPageBody(chain[j])

\* C1: when every page of the chain is fetched and is a list or an object
\* with 'items', get_paginated_data returns exactly the server's items, in
\* order, nothing dropped or duplicated, whatever the split into pages.
C1_ReturnsAllItems ==
    (/\ ppc = "done"
     /\ \A j \in 1..Len(chain) : Fetched(chain[j]) /\ IsPageBody(chain[j]))
    => /\ presult.kind = "return"
       /\ presult.shape = "list"
       /\ presult.value = items

C1_Witness ==
    /\ ppc = "done"
    /\ Len(chain) = 3 /\ Len(items) = 3
    /\ \A j \in 1..3 : Fetched(chain[j]) /\ Len(chain[j].items) = 1
    /\ chain[1].shape = "items" /\ chain[2].shape = "list" /\ chain[3].shape = "items"
    /\ presult.value = items

\* C2 (as claimed): when a page fetch fails, get_paginated_data returns the
\* items of the pages fetched before it together with the failing URL.
C2_ReturnsPartialResult ==
    \A f \in 1..Len(chain) :
        (ppc = "done" /\ FirstFailingPage(f))
        => /\ presult.kind = "return"
           /\ presult.value = Concat(chain, f - 1)
           /\ Last(presult.requested) = f

\* C2 (amended): when a page fetch fails, pagination stops there and
\* get_paginated_data raises that request's error; nothing is returned, the
\* items of the earlier pages are lost to the caller.
C2_RaisesAndDropsPartial ==
    \A f \in 1..Len(chain) :
        (ppc = "done" /\ FirstFailingPage(f))
        => /\ presult.kind = "raise"
           /\ IsRequestException(presult.error)
           /\ presult.error.status = chain[f].http.status
           /\ presult.value = <<>>
           /\ presult.requested = Iota(f)

C2_Witness ==
    /\ ppc = "done"
    /\ Len(chain) = 3
    /\ FirstFailingPage(2)
    /\ Len(chain[1].items) = 2
    /\ chain[2].http = Http404
    /\ presult.kind = "raise"

\* the page at which pagination of ch ends: the first page whose fetch
\* fails or whose body is neither a list nor an object with 'items', else
\* the last page, the one without a 'next' link
StopPage(ch) ==
    LET ends == {j \in 1..Len(ch) : ~Fetched(ch[j]) \/ ~IsPageBody(ch[j])}
    IN  IF ends = {} THEN Len(ch) ELSE CHOOSE j \in ends : \A k \in ends : j <= k

\* C27: the call of get_paginated_data ends on every chain of pages; it
\* has then asked for the pages 1, 2, ... in link order, each once, up to
\* and including the page where pagination ends, every request but
\* possibly the last was answered, and a call that returns had all its
\* requests answered.
C27_TerminatesOneRequestPerPage ==
    /\ <>(ppc = "done")
    /\ [](ppc = "done"
          => /\ presult.kind \in {"return", "raise"}
             /\ presult.requested = Iota(StopPage(chain))
             /\ \A j \in 1..(StopPage(chain) - 1) : Fetched(chain[j])
             /\ presult.kind = "return" <=> Fetched(chain[StopPage(chain)]))

\* three pages, each with a 'next' link to the one after; the second is a
\* body of another shape and the third is never asked for
C27_Witness ==
    /\ ppc = "done" /\ Len(chain) = 3
    /\ \A j \in 1..3 : Fetched(chain[j])
    /\ chain[1].shape = "list" /\ chain[2].shape = "other" /\ chain[3].shape = "list"
    /\ presult.kind = "return" /\ presult.requested = <<1, 2>>

----------------------------------------------------------------------------
(* Properties of github_request and the retrying client (SpecReq) *)

Exhausted403(r) ==
    ~r.exc /\ r.status = 403 /\ r.remaining = Some(H0)
Is429(r) == ~r.exc /\ r.status = 429
Transient(r) == r.exc \/ r.status \in 500..599

\* C3: a 403 with X-RateLimit-Remaining: 0 is the last attempt of its
\* request, no sleep follows it, and github_request raises the
\* rate-limit-exhausted error with the reset time, or 'unknown' without a
\* reset header.
C3_Exhausted403FailsFast ==
    \A i \in 1..Len(hist) :
        Exhausted403(hist[i])
        => /\ i = Len(hist)
           /\ Len(sleeps) = i - 1
           /\ rpc \in {"classify", "done"}
           /\ rpc = "done"
              => /\ outcome.kind = "raise"
                 /\ outcome.exc_type = "HTTPError"
                 /\ outcome.message = "rate limit exhausted"
                 /\ hist[i].reset = Some(H17)
                    => outcome.reset_datetime = Some(fromtimestamp(17))
                 /\ hist[i].reset = None
                    => outcome.reset_datetime = Some(Text(Unknown))

C3_Witness ==
    /\ rpc = "done"
    /\ Len(hist) = 2
    /\ hist[1] = Http503
    /\ Exhausted403(hist[2]) /\ hist[2].reset = None
    /\ sleeps = <<1>>
    /\ outcome.reset_datetime = Some(Text(Unknown))

\* C4 (as claimed): a request that receives a 429 has made no retry and
\* slept no backoff, and fails with the rate-limit error.
C4_429NeverRetried ==
    \A i \in 1..Len(hist) :
        Is429(hist[i])
        => /\ i = Len(hist)
           /\ sleeps = <<>>
           /\ rpc \in {"classify", "done"}
           /\ rpc = "done" => IsRateLimitError(outcome)

\* C4 (amended): the client retries a 429 inline, sleeping before each
\* retry, until 5 attempts are made; only a 429 on the last allowed attempt
\* makes github_request raise the rate-limit error with the reset time
\* (X-RateLimit-Reset, else Retry-After, else 0), and nothing follows it.
C4_429RetriedThenFailsFast ==
    /\ \A i \in 1..Len(hist) :
        (Is429(hist[i]) /\ i < request_max_attempts)
        => \/ i = Len(hist) /\ rpc = "sleep" /\ Len(sleeps) = i - 1
           \/ Len(sleeps) >= i
    /\ (Len(hist) > 0 /\ Is429(Last(hist)) /\ rpc \in {"classify", "done"})
       => /\ Len(hist) = request_max_attempts
          /\ Len(sleeps) = request_max_attempts - 1
          /\ rpc = "done"
             => /\ outcome.kind = "raise"
                /\ outcome.exc_type = "HTTPError"
                /\ outcome.message = "rate limit hit after retries"
                /\ Last(hist).reset = Some(H17)
                   => outcome.reset_datetime = Some(fromtimestamp(17))
                /\ (Last(hist).reset = None /\ Last(hist).retry_after = Some(H3))
                   => outcome.reset_datetime = Some(fromtimestamp(3))
                /\ (Last(hist).reset = None /\ Last(hist).retry_after = None)
                   => outcome.reset_datetime = Some(fromtimestamp(0))

C4_Witness ==
    /\ rpc = "done"
    /\ Len(hist) = 5
    /\ \A i \in 1..5 : Is429(hist[i]) /\ hist[i].retry_after = None
    /\ sleeps = <<1, 2, 4, 8>>
    /\ outcome.message = "rate limit hit after retries"

----------------------------------------------------------------------------
(* Properties of the collectors (SpecColl) *)

EmittedFor(name) == SelectSeq(emitted, LAMBDA rec : rec.pipeline_name = name)

\* the checkpoint entry of an issue in ck, if it has one
CkptEntry(ck, repo, number) ==
    IF repo \in DOMAIN ck /\ str(number) \in DOMAIN ck[repo]
    THEN Some(ck[repo][str(number)])
    ELSE None

\* a comments request went out for the issue of ilog entry e
Refetched(e) == Req(e.repo, "comments", e.number) \in Range(requested)
\* the issue is new to the checkpoint, or its comment count moved
Changed(e) ==
    LET c == CkptEntry(checkpoint0, e.repo, e.number)
    IN  IsNone(c) \/ c[1].num_comments # e.comments

\* C6 (as claimed): a rate-limit error of github_request met while one
\* repository or issue is fetched leaves the collector as its fatal error,
\* and nothing is requested after the failing request.
C6_RateLimitErrorPropagates ==
    /\ \A i \in 1..Len(log) :
        IsRateLimitError(log[i].error)
        => /\ cpc = "raised" /\ cerror = log[i].error
           /\ i = Len(log)
           /\ Last(requested)[1] = log[i].repo
    /\ \A i \in 1..Len(ilog) :
        IsRateLimitError(ilog[i].error)
        => /\ cpc = "raised" /\ cerror = ilog[i].error
           /\ i = Len(ilog)
           /\ Last(requested) = Req(ilog[i].repo, "comments", ilog[i].number)

\* the logical units a repository's served data stands for
Units(data) ==
    CASE collector = "traffic_stats" ->
            {data.views[i].timestamp : i \in 1..Len(data.views)}
            \cup {data.clones[i].timestamp : i \in 1..Len(data.clones)}
      [] collector = "contributor_stats" ->
            UNION {{<<data[i].author, data[i].weeks[j].w \div 86400>> :
                        j \in 1..Len(data[i].weeks)} : i \in 1..Len(data)}
      [] collector = "commit_stats" ->
            IF \E i \in 1..Len(data) : ~IsNone(data[i].date) THEN {"some"} ELSE {}
      [] collector = "issue_stats" -> {data[i].number : i \in 1..Len(data)}
UnitOf(rec) ==
    CASE collector = "traffic_stats" -> rec.timestamp
      [] collector = "contributor_stats" -> <<rec.author, rec.week_date>>
      [] collector = "commit_stats" -> "some"
      [] collector = "issue_stats" -> rec.issue_number

\* C7: no failure of one repository's fetch (network, 403, 404) leaves the
\* collector: every repository of the list it iterates is requested, in
\* order, and each one whose fetch succeeded has its records emitted.
C7_FailedRepoOnlySkipped ==
    /\ cpc = "raised" => (collector = "issue_stats" /\ log = <<>>)
    /\ \A i \in 1..Len(log) :
        /\ log[i].repo = filtered_repos[i].name
        /\ \E q \in Range(requested) : q[1] = log[i].repo
    /\ cpc = "done"
       => /\ Len(log) = Len(filtered_repos)
          /\ \A i \in 1..Len(log) :
               LET recs == EmittedFor(log[i].repo)
               IN  IF log[i].event = "ok"
                   THEN {UnitOf(recs[k]) : k \in 1..Len(recs)} = Units(log[i].data)
                   ELSE recs = <<>>

C7_Witness ==
    /\ cpc = "done"
    /\ collector = "contributor_stats"
    /\ Len(log) = 2
    /\ log[1].event = "failed" /\ log[1].error.status = 404
    /\ log[2].event = "ok"
    /\ Len(EmittedFor(log[2].repo)) = 3

\* C8 (as claimed): with quota above the floor, an issue's comments are
\* requested iff the issue is absent from the checkpoint or its comment
\* count differs from the checkpointed one.
C8_RefetchIffChanged ==
    \A i \in 1..Len(ilog) :
        remaining > CommentQuotaFloor => (Refetched(ilog[i]) <=> Changed(ilog[i]))

\* C8 (amended): with quota above the floor, an issue's comments are
\* requested iff the issue has at least one comment and is absent from the
\* checkpoint or its comment count differs from the checkpointed one.
C8_RefetchIffChangedAndCommented ==
    \A i \in 1..Len(ilog) :
        remaining > CommentQuotaFloor
        => (Refetched(ilog[i]) <=> (ilog[i].comments > 0 /\ Changed(ilog[i])))

C8_Witness ==
    /\ remaining > CommentQuotaFloor
    /\ Len(ilog) = 2
    /\ CkptEntry(checkpoint0, "a", 1) = Some(Entry(1, Some(130), Some("bob")))
    /\ ilog[1].repo = "a" /\ ilog[1].number = 1 /\ ilog[1].comments = 2
    /\ Refetched(ilog[1])
    /\ CkptEntry(checkpoint0, "a", 2) = Some(Entry(1, Some(50), Some("carol")))
    /\ ilog[2].number = 2 /\ ilog[2].comments = 1
    /\ ~Refetched(ilog[2])

\* C9 (as claimed): when the comment fetch of a checkpointed issue is
\* skipped, its checkpoint entry stays exactly as it was before the run and
\* its record carries the checkpoint's first_response_seconds and
\* first_responder.
C9_SkipLeavesCheckpoint ==
    \A i \in 1..Len(ilog) :
        LET e == ilog[i]
            c == CkptEntry(checkpoint0, e.repo, e.number)
        IN  (~Refetched(e) /\ ~IsNone(c))
            => /\ CkptEntry(processed_issues, e.repo, e.number) = c
               /\ emitted[i].first_response_seconds = c[1].first_response_seconds
               /\ emitted[i].first_responder = c[1].first_responder

\* C10: once a comment fetch was attempted for an issue, whether it gave a
\* list or raised, the issue's checkpoint entry holds the issue's current
\* comment count and the response fields its record was emitted with.
C10_CheckpointAfterFetch ==
    \A i \in 1..Len(ilog) :
        Refetched(ilog[i])
        => CkptEntry(processed_issues, ilog[i].repo, ilog[i].number)
           = Some(Entry(ilog[i].comments, emitted[i].first_response_seconds,
                        emitted[i].first_responder))

C10_Witness ==
    /\ Len(ilog) = 2
    /\ ilog[1].result = "failed" /\ Refetched(ilog[1])
    /\ ilog[1].error.exc_type = "ConnectionError"
    /\ ilog[1].comments = 2
    /\ emitted[1].first_response_seconds = Some(130)
    /\ CkptEntry(processed_issues, "a", 1) = Some(Entry(2, Some(130), Some("bob")))
    /\ ilog[2].result = "fetched" /\ Refetched(ilog[2])
    /\ emitted[2].first_responder = Some("alice")
    /\ CkptEntry(processed_issues, "a", 2) = Some(Entry(1, Some(10), Some("alice")))

\* the run of issue_stats is past its rate-limit check
PastRateCheck == collector = "issue_stats" /\ cpc \in {"loop", "issues", "done"}
CommentRequests == {i \in 1..Len(requested) : requested[i][2] = "comments"}

\* C11: when the check at the start of issue_stats reports less than 500
\* remaining, the run issues no comment request for any issue, whatever its
\* comment count and checkpoint entry, and the warning is logged.
C11_LowQuotaSuppressesComments ==
    (PastRateCheck /\ remaining < CommentQuotaFloor)
    => /\ CommentRequests = {}
       /\ SkippingComments \in Range(warnings)
       /\ \A i \in 1..Len(ilog) : ~ilog[i].attempted

C11_Witness ==
    /\ cpc = "done" /\ collector = "issue_stats"
    /\ remaining < CommentQuotaFloor
    /\ warnings = <<"Low rate limit", SkippingComments>>
    /\ Len(ilog) = 3
    /\ ilog[1].comments = 2 /\ Changed(ilog[1])
    /\ IsNone(CkptEntry(checkpoint0, ilog[2].repo, ilog[2].number))
    /\ ilog[3].repo = "b"
    /\ CommentRequests = {}

\* the quota left before request i of the run, when every request after the
\* check takes one from the quota the check reported
QuotaBefore(i) == remaining - (i - 2)

\* C12 (as claimed): every comment request is issued while the remaining
\* quota is above the floor of 500, and leaves it at or above the floor.
C12_CommentFetchKeepsFloor ==
    PastRateCheck
    => \A i \in CommentRequests :
          /\ QuotaBefore(i) > CommentQuotaFloor
          /\ QuotaBefore(i + 1) >= CommentQuotaFloor

\* C12 (amended): the gate is decided once, by the check at the start: a
\* comment request is issued only in a run whose check reported more than
\* 500 remaining, and the gate stays as decided for the whole run.
C12_CommentFetchOnlyIfStartAboveFloor ==
    PastRateCheck
    => /\ fetch_comments = (remaining > CommentQuotaFloor)
       /\ CommentRequests # {} => remaining > CommentQuotaFloor

\* two comment fetches in a run that started one above the floor
C12_Witness ==
    /\ PastRateCheck /\ remaining = CommentQuotaFloor + 1
    /\ Cardinality(CommentRequests) = 2
    /\ \E i \in CommentRequests : QuotaBefore(i + 1) < CommentQuotaFloor

\* the repositories handed to traffic_stats that are not archived and were
\* updated less than 180 days before the run
ActiveNames ==
    {repos[i].name : i \in {j \in 1..Len(repos) :
        ~repos[j].archived /\ params.now - repos[j].updated_at < 180}}
StarCount(name) ==
    repos[CHOOSE i \in 1..Len(repos) : repos[i].name = name].stargazers_count
\* the n most starred of the names S (all of S when it has fewer)
IsTopN(T, S, n) ==
    /\ T \subseteq S
    /\ Cardinality(T) = Min(n, Cardinality(S))
    /\ \A t \in T, u \in S \ T : StarCount(t) >= StarCount(u)
TrafficRequested == {q[1] : q \in {r \in Range(requested) : r[2] = "views"}}

Timestamps(series) == {series[i].timestamp : i \in 1..Len(series)}
PointAt(series, ts) == series[CHOOSE i \in 1..Len(series) : series[i].timestamp = ts]

\* C14: the traffic records of a repository whose views and clones were
\* served carry exactly the timestamps of the two series, one record each;
\* a record has the counters of the series that has its timestamp and
\* zeros for a series that does not.
C14_TrafficMergeByTimestamp ==
    collector = "traffic_stats"
    => \A i \in 1..Len(log) :
         log[i].event = "ok"
         => LET views == log[i].data.views
                clones == log[i].data.clones
                recs == EmittedFor(log[i].repo)
            IN  /\ {recs[k].timestamp : k \in 1..Len(recs)}
                      = Timestamps(views) \cup Timestamps(clones)
                /\ Len(recs) = Cardinality(Timestamps(views) \cup Timestamps(clones))
                /\ \A k \in 1..Len(recs) :
                     LET ts == recs[k].timestamp
                     IN  /\ IF ts \in Timestamps(views)
                            THEN /\ recs[k].views = PointAt(views, ts).count
                                 /\ recs[k].views_uniques = PointAt(views, ts).uniques
                            ELSE recs[k].views = 0 /\ recs[k].views_uniques = 0
                         /\ IF ts \in Timestamps(clones)
                            THEN /\ recs[k].clones = PointAt(clones, ts).count
                                 /\ recs[k].clones_uniques = PointAt(clones, ts).uniques
                            ELSE recs[k].clones = 0 /\ recs[k].clones_uniques = 0

\* views at 1 and 2, clones at 2 and 3: three records
C14_Witness ==
    /\ collector = "traffic_stats" /\ Len(log) = 1 /\ log[1].event = "ok"
    /\ Timestamps(log[1].data.views) = {1, 2}
    /\ Timestamps(log[1].data.clones) = {2, 3}
    /\ emitted = <<TrafficRecord(log[1].repo, 1, 11, 1, 0, 0),
                   TrafficRecord(log[1].repo, 2, 12, 2, 22, 1),
                   TrafficRecord(log[1].repo, 3, 0, 0, 23, 2)>>

\* the fetch of log entry e was answered 202 Accepted
Answered202(e) ==
    IF e.event = "failed" THEN e.error.status = 202
    ELSE e.event = "not_list" /\ e.data.http.status = 202
RequestsFor(name) == {i \in 1..Len(requested) : requested[i][1] = name}

\* C17: a repository whose sub-resource is answered 202 Accepted gives no
\* record and no error, is requested once, and the collector goes on with the
\* repository after it.
C17_NotReadySkipsRepo ==
    \A i \in 1..Len(log) :
        Answered202(log[i])
        => /\ log[i].event = "not_list" /\ log[i].error = NoOutcome
           /\ EmittedFor(log[i].repo) = <<>>
           /\ Cardinality(RequestsFor(log[i].repo)) = 1
           /\ cpc # "raised"
           /\ (cpc = "loop" /\ i = Len(log)) => pos = i + 1
           /\ cpc = "done" => Len(log) = Len(filtered_repos)

C17_Witness ==
    /\ collector = "contributor_stats" /\ cpc = "done"
    /\ Len(log) = 2
    /\ Answered202(log[1])
    /\ log[2].event = "ok"
    /\ Len(emitted) = 3
    /\ \A k \in 1..3 : emitted[k].pipeline_name = log[2].repo

\* the Monday-to-Sunday UTC week an instant lies in, counted from the week
\* of 1970-01-01
CalendarWeek(t) == ((t \div SecondsPerDay) + 3) \div 7

\* the commits with an author date a repository's listing served
DatedCommits(e) == SelectSeq(e.data, LAMBDA c : ~IsNone(c.date))

RECURSIVE SumCommits(_)
SumCommits(recs) ==
    IF recs = <<>> THEN 0
    ELSE recs[1].number_of_commits + SumCommits(Tail(recs))

\* C25 (as claimed): of the records commit_stats emits for a repository no
\* two lie in the same calendar week, so commits of one week are counted in
\* one record, and their number_of_commits sum to the number of the
\* repository's commits that have an author date.
C25_OneRecordPerCalendarWeek ==
    collector = "commit_stats"
    => /\ \A i, j \in 1..Len(emitted) :
            (i # j /\ emitted[i].pipeline_name = emitted[j].pipeline_name)
            => CalendarWeek(emitted[i].timestamp) # CalendarWeek(emitted[j].timestamp)
       /\ \A k \in 1..Len(log) :
            log[k].event = "ok"
            => SumCommits(SelectSeq(emitted,
                            LAMBDA r : r.pipeline_name = log[k].repo))
               = Len(DatedCommits(log[k]))

\* the comments of a served listing written under a login that is not the
\* issue author's
ByOthers(comments, author) ==
    {k \in 1..Len(comments) :
        ~IsNone(comments[k].login) /\ comments[k].login[1] # author}

\* C26: when the comments of an issue were fetched again, the record's
\* first_responder is never the issue's author, and if the listing holds a
\* comment by somebody else, first_responder and first_response_seconds are
\* those of the earliest-listed such comment.
C26_FirstResponseByOtherAuthor ==
    collector = "issue_stats"
    => \A i \in 1..Len(ilog) :
         ilog[i].result = "fetched"
         => LET rec == emitted[i]
                others == ByOthers(ilog[i].served, rec.created_by)
            IN  /\ rec.first_responder # Some(rec.created_by)
                /\ \A k \in others :
                     (\A j \in others : k <= j)
                     => /\ rec.first_responder = ilog[i].served[k].login
                        /\ rec.first_response_seconds
                             = Some(ilog[i].served[k].created_at - rec.created_at)

\* alice's issue a/1: her own comment is listed first, bob's second, and
\* the response recorded is bob's
C26_Witness ==
    /\ collector = "issue_stats" /\ Len(ilog) >= 1
    /\ ilog[1].result = "fetched" /\ ilog[1].repo = "a" /\ ilog[1].number = 1
    /\ ilog[1].served = <<Comment(Some("alice"), 210), Comment(Some("bob"), 230)>>
    /\ emitted[1].created_by = "alice"
    /\ emitted[1].first_responder = Some("bob")
    /\ emitted[1].first_response_seconds = Some(130)

----------------------------------------------------------------------------
(* Properties of successive issue_stats runs (SpecRuns) *)

\* the issue was looked at in the run at hand
Observed(repo, key) ==
    \E i \in 1..Len(ilog) : ilog[i].repo = repo /\ str(ilog[i].number) = key

\* C18: at every point of every run, each repository and each issue key the
\* checkpoint had when the run began is still there, and the entry of an
\* issue the run has not looked at is the entry it began with.
C18_CheckpointNeverDeleted ==
    \A repo \in DOMAIN checkpoint0 :
        /\ repo \in DOMAIN processed_issues
        /\ \A key \in DOMAIN checkpoint0[repo] :
             /\ key \in DOMAIN processed_issues[repo]
             /\ ~Observed(repo, key)
                => processed_issues[repo][key] = checkpoint0[repo][key]

\* a second run that lists issue 1 only, with one more comment, and fetches
\* it: issue 2 keeps the entry of the first run
C18_Witness ==
    /\ run = 2 /\ cpc = "done"
    /\ "a" \in DOMAIN checkpoint0
    /\ DOMAIN checkpoint0["a"] = {str(1), str(2)}
    /\ Len(ilog) = 1 /\ ilog[1].number = 1 /\ ilog[1].result = "fetched"
    /\ processed_issues["a"][str(1)] # checkpoint0["a"][str(1)]
    /\ processed_issues["a"][str(2)] = checkpoint0["a"][str(2)]
    /\ ~IsNone(processed_issues["a"][str(2)].first_responder)

\* the issues whose comments the run before would have fetched but for the
\* quota gate: they had comments, and were new or had a changed count
SuppressedBefore ==
    LET before == history[Len(history)]
    IN  {e \in Range(before.seen) :
            /\ e.comments > 0
            /\ LET c == CkptEntry(before.checkpoint0, e.repo, e.number)
               IN  IsNone(c) \/ c[1].num_comments # e.comments}

\* C19 (as claimed): when the run before was suppressed by the quota gate
\* and this run has quota above the floor, every issue this run handles
\* that still has comments and whose comments were new or changed in the
\* suppressed run has its comments requested.
C19_SuppressedFetchedNextRun ==
    (history # <<>> /\ ~history[Len(history)].fetch_comments
     /\ cpc \in {"loop", "issues", "done"} /\ fetch_comments)
    => \A i \in 1..Len(ilog) :
          (/\ ilog[i].comments > 0
           /\ \E e \in SuppressedBefore :
                e.repo = ilog[i].repo /\ e.number = ilog[i].number)
          => Refetched(ilog[i])

----------------------------------------------------------------------------
(* Properties of main (SpecMain) *)

ResourceEnded(e) == e.event \in {"completed", "failed", "rate_limited"}

\* C15 (as claimed): after a resource that failed with no rate-limit error
\* the loop goes on, and a resource during which a rate-limit error was met
\* is the last thing main does: the run is over and nothing follows it.
C15_RateLimitAbortsOthersContinue ==
    \A i \in 1..Len(mlog) :
        /\ (mlog[i].event = "failed" /\ ~mlog[i].rate_limit_seen /\ i = Len(mlog))
           => mpc = "loop"
        /\ mlog[i].rate_limit_seen => (i = Len(mlog) /\ mpc = "done")

\* C16: with the token missing or empty, main ends with the configuration
\* error as the first and only thing it did: no rate-limit check, no
\* repository listing, no resource and no request.
C16_NoTokenFailsBeforeAnyRequest ==
    (IsNone(api_token) \/ api_token = Some(""))
    => /\ mpc \in {"start", "failed"}
       /\ cpc = "off" /\ requested = <<>>
       /\ mpc = "start" => mlog = <<>>
       /\ mpc = "failed"
          => /\ Len(mlog) = 1
             /\ mlog[1].event = "raised"
             /\ mlog[1].error.exc_type \in {"ValueError", "ConfigFieldMissingException"}

C16_Witness ==
    /\ api_token = Some("")
    /\ mpc = "failed"
    /\ mlog = <<MainEvent("", "raised", None,
                          ConfigError("ValueError", "token is not configured"), FALSE)>>

\* C20: a resource runs only straight after a check made for it that
\* reported at least 100; a check that reports less than 100 is the last
\* thing main does: its resource is not started, nor is any after it.
C20_CheckBeforeEveryResource ==
    /\ mpc = "resource"
       => /\ Last(mlog).event = "started"
          /\ Last(mlog).resource = collector
          /\ collector = resources_to_run[ridx]
    /\ cpc # "off" => mpc = "resource"
    /\ \A i \in 1..Len(mlog) :
         /\ ResourceEnded(mlog[i])
            => /\ i > 1 /\ mlog[i - 1].event = "started"
               /\ mlog[i - 1].resource = mlog[i].resource
         /\ mlog[i].event = "started" => mlog[i].remaining[1] >= 100
         /\ (mlog[i].resource # "" /\ ~IsNone(mlog[i].remaining)
             /\ mlog[i].remaining[1] < 100)
            => /\ mlog[i].event = "stopped"
               /\ i = Len(mlog) /\ mpc = "done"

\* org_members ran; the check before modules_container_conversion reports
\* 99 and the run is over
C20_Witness ==
    /\ mpc = "done" /\ ridx = 2 /\ Len(resources_to_run) = 7
    /\ Len(mlog) = 5
    /\ mlog[3].event = "started" /\ mlog[3].resource = "org_members"
    /\ mlog[4].event = "completed"
    /\ mlog[5] = MainEvent("modules_container_conversion", "stopped", Some(99),
                           NoOutcome, FALSE)


\* the place of a resource in all_resources
OrderOf(name) == CHOOSE k \in 1..Len(all_resources) : all_resources[k] = name

\* C21: the resources selected are in the order of all_resources, what main
\* does for resources follows that order, and a resource that was started
\* is the only one running until its end is recorded: the next thing main
\* records after a start is the end of that same resource.
C21_FixedOrderOneAtATime ==
    /\ \A i, j \in 1..Len(resources_to_run) :
         i < j => OrderOf(resources_to_run[i]) < OrderOf(resources_to_run[j])
    /\ \A i, j \in 1..Len(mlog) :
         (i < j /\ mlog[i].resource # "" /\ mlog[j].resource # "")
         => OrderOf(mlog[i].resource) <= OrderOf(mlog[j].resource)
    /\ \A i \in 1..Len(mlog) :
         mlog[i].event = "started"
         => IF i = Len(mlog)
            THEN mpc = "resource" /\ collector = mlog[i].resource
            ELSE ResourceEnded(mlog[i + 1])
                 /\ mlog[i + 1].resource = mlog[i].resource
    /\ cpc # "off" => (mpc = "resource" /\ Last(mlog).event = "started")

\* resources named as traffic_stats, org_members: org_members ran first
\* and has ended, traffic_stats runs now
C21_Witness ==
    /\ resources_to_run = <<"org_members", "traffic_stats">>
    /\ mpc = "resource" /\ collector = "traffic_stats" /\ cpc = "loop"
    /\ Len(mlog) = 5
    /\ mlog[3].event = "started" /\ mlog[3].resource = "org_members"
    /\ ResourceEnded(mlog[4])
    /\ mlog[5].event = "started" /\ mlog[5].resource = "traffic_stats"


----------------------------------------------------------------------------
(* Properties of strict_syntax_source (SpecSyntax) *)

\* the pipelines of slog that were cloned and linted to an end
Processed == SelectSeq(slog, LAMBDA e : e.did \notin {"skipped", "nextflow_missing"})

\* C22: a pipeline is skipped exactly when its remote head SHA was read and
\* the checkpoint holds this run's Nextflow SHA and that pipeline SHA; the
\* result rows of the run are those of the pipelines not skipped, one each
\* and in order, so a skipped pipeline has none and every other has one.
C22_SkipIffBothShasUnchanged ==
    /\ \A i \in 1..Len(slog) :
         slog[i].did = "skipped"
         <=> /\ ~IsNone(slog[i].pipeline_sha)
             /\ slog[i].cached # None
             /\ slog[i].cached = Some(Analyzed(nf_sha, slog[i].pipeline_sha))
    /\ Len(results) = Len(Processed)
    /\ \A k \in 1..Len(results) :
         /\ results[k].name = Processed[k].name
         /\ results[k].commit_sha = Processed[k].pipeline_sha

\* second run, same Nextflow: x is unchanged and skipped; y has a new head
\* and is linted again
C22_Witness ==
    /\ srun = 2 /\ Len(slog) = 2 /\ Len(results) = 1
    /\ slog[1].name = "x" /\ slog[1].did = "skipped"
    /\ slog[2].name = "y" /\ slog[2].did = "report"
    /\ slog[2].cached = Some(Analyzed(nf_sha, Some("p1")))
    /\ slog[2].pipeline_sha = Some("p2")
    /\ results[1].name = "y"

\* C23 (as claimed): a pipeline whose result of this run has parse_error =
\* true has the last_analyzed entry it had before the run.
C23_ParseErrorLeavesCheckpoint ==
    \A k \in 1..Len(results) :
        results[k].parse_error
        => LET name == results[k].name
           IN  /\ name \in DOMAIN last_analyzed <=> name \in DOMAIN last_analyzed0
               /\ name \in DOMAIN last_analyzed0
                  => last_analyzed[name] = last_analyzed0[name]

\* C30: in the record of strict_syntax_history the error buckets and the
\* warning buckets each add up, with parse_errors, to total_pipelines.
C30_BucketsPartitionPipelines ==
    ~IsNone(history_out)
    => LET h == history_out[1]
       IN  /\ h.total_pipelines = Len(results)
           /\ h.errors_zero + h.errors_low + h.errors_high + h.parse_errors
              = h.total_pipelines
           /\ h.warnings_zero + h.warnings_low + h.warnings_high + h.parse_errors
              = h.total_pipelines

\* two results: one with errors at the upper end of the low bucket and
\* warnings just above theirs, one that could not be parsed
C30_Witness ==
    /\ ~IsNone(history_out) /\ Len(results) = 2
    /\ results[1].errors = ErrorsLowMax /\ results[1].warnings = WarningsLowMax + 1
    /\ ~results[1].parse_error /\ results[2].parse_error
    /\ history_out[1].errors_low = 1 /\ history_out[1].warnings_high = 1
    /\ history_out[1].parse_errors = 1 /\ history_out[1].total_pipelines = 2


----------------------------------------------------------------------------
(* Properties of the GraphQL resource `repositories` (SpecGql) *)

RECURSIVE AllNodes(_, _)
\* the nodes of pages 1..n, in page order: the server's listing
AllNodes(pages, n) == IF n = 0 THEN <<>> ELSE AllNodes(pages, n - 1) \o pages[n].nodes

\* the listing is ordered by updatedAt, newest first
NewestFirst(l) == \A i, j \in 1..Len(l) : i < j => l[i].updatedAt >= l[j].updatedAt

\* the page after which no page is asked for: the first page that has no
\* node updated at or after last_value, or that has no next page
LastPageAsked(pages, lv) ==
    CHOOSE j \in 1..Len(pages) :
        /\ \/ ~pages[j].hasNextPage
           \/ \A i \in 1..Len(pages[j].nodes) : pages[j].nodes[i].updatedAt < lv
        /\ \A k \in 1..(j - 1) :
             /\ pages[k].hasNextPage
             /\ \E i \in 1..Len(pages[k].nodes) : pages[k].nodes[i].updatedAt >= lv

\* C24: with the listing ordered newest first and every request made
\* answered, the generator yields the repositories updated at or after
\* last_value, all of them, each once and in listing order, and the pages
\* it asks for are the first ones up to and including the first page that
\* holds no such repository or has no next page.
C24_YieldsExactlyUpdatedSince ==
    (/\ gpc = "done"
     /\ NewestFirst(AllNodes(gql_pages, Len(gql_pages)))
     /\ gql_out.kind = "return")
    => /\ gql_out.yielded
          = SelectSeq(AllNodes(gql_pages, Len(gql_pages)),
                      LAMBDA r : r.updatedAt >= last_value)
       /\ gql_out.requested = Iota(LastPageAsked(gql_pages, last_value))

\* three repositories updated on days 6, 5, 4, served one per page, and
\* last_value 5: two are yielded (one of them updated exactly at
\* last_value), the third page is asked for and yields nothing
C24_Witness ==
    /\ gpc = "done" /\ last_value = 5 /\ Len(gql_pages) = 3
    /\ \A j \in 1..3 : gql_pages[j].ok
    /\ AllNodes(gql_pages, 3) = <<Node("r1", 6), Node("r2", 5), Node("r3", 4)>>
    /\ gql_out.kind = "return"
    /\ gql_out.yielded = <<Node("r1", 6), Node("r2", 5)>>
    /\ gql_out.requested = <<1, 2, 3>>


----------------------------------------------------------------------------
(* Properties of the Slack source (SpecSlack) *)

RECURSIVE Extended(_, _)
\* what pages 1..n add to all_results, in page order
Extended(pages, n) ==
    IF n = 0 THEN <<>> ELSE Extended(pages, n - 1) \o Extend(pages[n].body)

\* the first page whose call fails with SlackApiError or ok = false, and
\* which pagination gets to; 0 if there is none
FirstSlackFailure(pages) ==
    LET bad == {j \in 1..Len(pages) :
                  /\ pages[j].kind \in {"SlackApiError", "not_ok"}
                  /\ \A k \in 1..(j - 1) : pages[k].kind = "ok"}
    IN  IF bad = {} THEN 0 ELSE CHOOSE j \in bad : TRUE

\* a call of paginate_slack_api over pages gave res as the claim says
SlackPaginationAsClaimed(pages, res) ==
    IF FirstSlackFailure(pages) > 0
    THEN /\ res.kind = "return"
         /\ res.value = Extended(pages, FirstSlackFailure(pages) - 1)
         /\ res.calls = Iota(FirstSlackFailure(pages))
    ELSE (\A j \in 1..Len(pages) : pages[j].kind = "ok")
         => /\ res.kind = "return"
            /\ res.value = Extended(pages, Len(pages))
            /\ res.calls = Iota(Len(pages))

\* C28: a call of paginate_slack_api that meets a SlackApiError or an
\* answer with ok = false returns what the pages before it held, in order,
\* and makes no further call; a call whose pages all answer returns what
\* all pages held, after asking for each once.  Both paginations of
\* slack_stats_resource are looked at.
C28_SlackPaginationReturnsPartial ==
    slpc = "done"
    => /\ SlackPaginationAsClaimed(users_pages, slack_out.members)
       /\ slack_out.billing # NoCall
          => SlackPaginationAsClaimed(billing_pages, slack_out.billing)

\* users.list in two pages: the first holds two members, the call for the
\* second raises SlackApiError; the two members are returned
C28_Witness ==
    /\ slpc = "done" /\ Len(users_pages) = 2
    /\ users_pages[1].kind = "ok" /\ users_pages[2].kind = "SlackApiError"
    /\ slack_out.members.kind = "return"
    /\ slack_out.members.value = <<Member("U1", FALSE), Member("U2", TRUE)>>
    /\ slack_out.members.calls = <<1, 2>>

\* C29: the record of slack_stats_resource has active_users <= total_users,
\* inactive_users >= 0 and active_users + inactive_users = total_users, and
\* every user counted as active is a member that is not deleted.
C29_UserCountsConsistent ==
    slack_out.kind = "record"
    => LET r == slack_out.record
       IN  /\ r.active_users <= r.total_users
           /\ r.inactive_users >= 0
           /\ r.active_users + r.inactive_users = r.total_users
           /\ r.total_users
              = Cardinality({i \in 1..Len(slack_out.members.value) :
                                ~slack_out.members.value[i].deleted})

\* one member that is not deleted and one that is; the billing info, two
\* dicts over two pages, marks both and a third id as billing-active: one
\* user is counted
C29_Witness ==
    /\ slack_out.kind = "record"
    /\ slack_out.members.value = <<Member("U1", FALSE), Member("U2", TRUE)>>
    /\ slack_out.billing.value
       = <<Batch(<<Billing("U1", TRUE), Billing("U2", TRUE)>>),
           Batch(<<Billing("U9", TRUE)>>)>>
    /\ slack_out.record
       = [total_users |-> 1, active_users |-> 1, inactive_users |-> 0]

====
